---- MODULE Spec2Model ----
(***************************************************************************)
(* CineAI: the persisted list store (lib/movieStorage.ts), the remote      *)
(* fetch primitive and the fallback-tiered movie source (lib/tmdb.ts) and  *)
(* the recommendation assembler (lib/recommendations.ts).                  *)
(***************************************************************************)
EXTENDS Integers, Sequences, FiniteSets, TLC

(***************************************************************************)
(* JavaScript values.  Every value carries its type tag in field t, so     *)
(* that values of different types can be compared.  Strings are sequences  *)
(* of one-character strings, so that parseInt and toString are computed.   *)
(***************************************************************************)
Undefined == [t |-> "undefined"]
Null == [t |-> "null"]
NaN == [t |-> "nan"]
Bool(b) == [t |-> "boolean", v |-> b]
Num(n) == [t |-> "number", v |-> n]
Str(s) == [t |-> "string", v |-> s]
Arr(s) == [t |-> "array", v |-> s]
Obj(f) == [t |-> "object", v |-> f]
\* the outcome of a call that raised instead of returning
Thrown == [t |-> "thrown"]

IsArr(x) == x.t = "array"
IsObj(x) == x.t = "object"
Nullish(x) == x.t \in {"undefined", "null"}

\* ToBoolean: what `if (x)`, `!x` and `a || b` test
Truthy(x) ==
  CASE x.t \in {"undefined", "null", "nan", "thrown"} -> FALSE
    [] x.t = "boolean" -> x.v
    [] x.t = "number" -> x.v # 0
    [] x.t = "string" -> x.v # <<>>
    [] OTHER -> TRUE

\* a || b
OrElse(a, b) == IF Truthy(a) THEN a ELSE b

\* a === b on primitives (NaN is not equal to itself)
StrictEq(a, b) == a.t # "nan" /\ a = b

\* SameValueZero, the comparison of Array.prototype.includes and Set.has
SameValueZero(a, b) == a = b

\* o.k for a non-nullish o: an own property, else undefined
Get(o, k) == IF IsObj(o) /\ k \in DOMAIN o.v THEN o.v[k] ELSE Undefined

DigitChars == <<"0", "1", "2", "3", "4", "5", "6", "7", "8", "9">>
IsDigit(c) == \E d \in DOMAIN DigitChars : DigitChars[d] = c
DigitOf(c) == (CHOOSE d \in DOMAIN DigitChars : DigitChars[d] = c) - 1

RECURSIVE NatToChars(_)
NatToChars(n) ==
  IF n < 10 THEN <<DigitChars[n + 1]>>
  ELSE NatToChars(n \div 10) \o <<DigitChars[(n % 10) + 1]>>

\* x.toString() / String(x) of a number or a string
toString(x) ==
  CASE x.t = "number" -> Str(NatToChars(x.v))
    [] x.t = "nan" -> Str(<<"N", "a", "N">>)
    [] OTHER -> x

RECURSIVE DigitPrefix(_)
DigitPrefix(s) ==
  IF s = <<>> \/ ~IsDigit(Head(s)) THEN <<>>
  ELSE <<Head(s)>> \o DigitPrefix(Tail(s))

RECURSIVE CharsToNat(_, _)
CharsToNat(s, acc) ==
  IF s = <<>> THEN acc ELSE CharsToNat(Tail(s), acc * 10 + DigitOf(Head(s)))

\* parseInt(x): the longest prefix of decimal digits of String(x), NaN if empty
ParseInt(x) ==
  LET s == toString(x)
  IN IF s.t # "string" \/ DigitPrefix(s.v) = <<>> THEN NaN
     ELSE Num(CharsToNat(DigitPrefix(s.v), 0))

\* new Date(now).toISOString()
ToISOString(now) == Str(<<"T">> \o NatToChars(now))

(***************************************************************************)
(* JSON.  A text is either a JSON document or text that JSON.parse rejects.*)
(***************************************************************************)
JSONText(doc) == [valid |-> TRUE, doc |-> doc]
RawText(chars) == [valid |-> FALSE, raw |-> chars]

\* SerializeJSONProperty: undefined-valued keys are left out of objects,
\* undefined array elements and NaN are written as null
RECURSIVE ToJSON(_)
ToJSON(x) ==
  CASE x.t = "object" ->
         Obj([k \in {j \in DOMAIN x.v : x.v[j] # Undefined} |-> ToJSON(x.v[k])])
    [] x.t = "array" -> Arr([i \in DOMAIN x.v |-> ToJSON(x.v[i])])
    [] x.t \in {"nan", "undefined"} -> Null
    [] OTHER -> x

\* JSON.stringify(x), then the conversion to a string that setItem makes:
\* JSON.stringify(undefined) is undefined, stored as the text "undefined"
JSONstringify(x) ==
  IF x = Undefined THEN RawText(<<"u", "n", "d", "e", "f", "i", "n", "e", "d">>)
  ELSE JSONText(ToJSON(x))

\* JSON.parse(text): the document, or Thrown (SyntaxError)
JSONparse(text) == IF text.valid THEN text.doc ELSE Thrown

(***************************************************************************)
(* lib/movieStorage.ts.  localStorage holds at most one item under         *)
(* STORAGE_KEY: ls is <<>> when the key is absent and <<text>> otherwise.  *)
(* env is where the module runs: "browser"; "nostorage", a browser whose   *)
(* storage raises on every access; "server", where window is undefined.    *)
(***************************************************************************)
STORAGE_VERSION == Str(<<"2", ".", "0">>)

MovieLists(my, wl, bl) == Obj([myList |-> my, watchedList |-> wl, blockedMovies |-> bl])

MovieStorage(lists) ==
  Obj([lists |-> lists, embeddingProfile |-> Arr(<<>>), version |-> STORAGE_VERSION])

getDefaultStorage == MovieStorage(MovieLists(Arr(<<>>), Arr(<<>>), Arr(<<>>)))

\* the object literal of the three .map callbacks of migrateFromOldVersion
MigrateMovie(movie, now) ==
  Obj([id |-> Get(movie, "id"),
       title |-> Get(movie, "title"),
       year |-> Get(movie, "year"),
       genre |-> Get(movie, "genre"),
       poster |-> Get(movie, "poster"),
       rating |-> Get(movie, "rating"),
       dateAdded |-> OrElse(Get(movie, "dateAdded"), ToISOString(now))])

\* list.map(movie => ({id: movie.id, ...})) raises a TypeError: list has no
\* map method, or an element is null
MapRaises(list) == ~IsArr(list) \/ \E i \in DOMAIN list.v : Nullish(list.v[i])

MapMigrate(list, now) == Arr([i \in DOMAIN list.v |-> MigrateMovie(list.v[i], now)])

\* migrateFromOldVersion without its "old field names" block
migrateFromOldVersion_CurrentNamesOnly(oldData, now) ==
  LET lists == Get(oldData, "lists")
      mapped == {k \in {"myList", "watchedList"} : Truthy(Get(lists, k))}
      my == IF "myList" \in mapped THEN MapMigrate(Get(lists, "myList"), now)
            ELSE Arr(<<>>)
      wl == IF "watchedList" \in mapped THEN MapMigrate(Get(lists, "watchedList"), now)
            ELSE Arr(<<>>)
      bl == IF Truthy(Get(lists, "blockedMovies")) THEN Get(lists, "blockedMovies")
            ELSE Arr(<<>>)
  IN IF ~Truthy(lists) THEN getDefaultStorage
     ELSE IF \E k \in mapped : MapRaises(Get(lists, k)) THEN getDefaultStorage
     ELSE MovieStorage(MovieLists(my, wl, bl))

migrateFromOldVersion(oldData, now) ==
  LET lists == Get(oldData, "lists")
      mapped == {k \in {"myList", "watchedList", "wantToWatch", "watched"} :
                   Truthy(Get(lists, k))}
      my == IF "wantToWatch" \in mapped THEN MapMigrate(Get(lists, "wantToWatch"), now)
            ELSE IF "myList" \in mapped THEN MapMigrate(Get(lists, "myList"), now)
            ELSE Arr(<<>>)
      wl == IF "watched" \in mapped THEN MapMigrate(Get(lists, "watched"), now)
            ELSE IF "watchedList" \in mapped THEN MapMigrate(Get(lists, "watchedList"), now)
            ELSE Arr(<<>>)
      bl == IF Truthy(Get(lists, "blocked")) THEN Get(lists, "blocked")
            ELSE IF Truthy(Get(lists, "blockedMovies")) THEN Get(lists, "blockedMovies")
            ELSE Arr(<<>>)
  IN IF ~Truthy(lists) THEN getDefaultStorage
     ELSE IF \E k \in mapped : MapRaises(Get(lists, k)) THEN getDefaultStorage
     ELSE MovieStorage(MovieLists(my, wl, bl))

\* loadMovieData without its try/catch
loadMovieData_NoCatch(ls, env, now) ==
  IF env = "server" THEN getDefaultStorage
  ELSE IF env = "nostorage" THEN Thrown
  ELSE IF ls = <<>> \/ ls[1] = RawText(<<>>) THEN getDefaultStorage
  ELSE LET parsed == JSONparse(ls[1])
       IN IF parsed = Thrown \/ Nullish(parsed) THEN Thrown
          ELSE IF ~StrictEq(Get(parsed, "version"), STORAGE_VERSION)
               THEN migrateFromOldVersion(parsed, now)
          ELSE parsed

loadMovieData(ls, env, now) ==
  IF env # "browser" THEN getDefaultStorage
  ELSE IF ls = <<>> \/ ls[1] = RawText(<<>>) THEN getDefaultStorage
  ELSE LET parsed == JSONparse(ls[1])
       IN IF parsed = Thrown \/ Nullish(parsed) THEN getDefaultStorage
          ELSE IF ~StrictEq(Get(parsed, "version"), STORAGE_VERSION)
               THEN migrateFromOldVersion(parsed, now)
          ELSE parsed

\* saveMovieData: [ls: the storage afterwards, ok: the boolean returned].
\* writeOk is whether localStorage.setItem succeeds (quota).
saveMovieData(ls, env, data, writeOk) ==
  IF env = "browser" /\ writeOk
  THEN [ls |-> <<JSONstringify(data)>>, ok |-> TRUE]
  ELSE [ls |-> ls, ok |-> FALSE]

createStoredMovie(movieData, now) ==
  Obj([id |-> Get(movieData, "id"),
       title |-> Get(movieData, "title"),
       year |-> Get(movieData, "year"),
       genre |-> Get(movieData, "genre"),
       poster |-> OrElse(Get(movieData, "posterUrl"), Get(movieData, "poster")),
       rating |-> OrElse(Get(movieData, "userRating"), Get(movieData, "rating")),
       dateAdded |-> ToISOString(now)])

\* o.k = val on an object
SetKey(o, k, val) == Obj([j \in DOMAIN o.v \cup {k} |-> IF j = k THEN val ELSE o.v[j]])

\* storage with storage.lists.<k> replaced
SetList(storage, k, val) == SetKey(storage, "lists", SetKey(Get(storage, "lists"), k, val))

\* list.findIndex(m => m.id === id): the 1-based index of the first entry
\* with that id, 0 when there is none, -1 when the search raises (list is
\* no array, or a null entry comes before the first match)
RECURSIVE FindIdFrom(_, _, _)
FindIdFrom(s, id, i) ==
  IF i > Len(s) THEN 0
  ELSE IF Nullish(s[i]) THEN -1
  ELSE IF StrictEq(Get(s[i], "id"), id) THEN i
  ELSE FindIdFrom(s, id, i + 1)

FindIndexById(list, id) == IF IsArr(list) THEN FindIdFrom(list.v, id, 1) ELSE -1

\* list.filter(m => m.id !== id) raises
FilterRaises(list) == ~IsArr(list) \/ \E i \in DOMAIN list.v : Nullish(list.v[i])

RemoveId(list, id) == Arr(SelectSeq(list.v, LAMBDA m : ~StrictEq(Get(m, "id"), id)))

\* what a mutator leaves: the storage and the value it returned (or Thrown)
Outcome(ls, ret) == [ls |-> ls, ret |-> ret]

\* addToMyList without the existsInWatched test
addToMyList_NoWatchedTest(ls, env, movieData, now, writeOk) ==
  LET storage == loadMovieData(ls, env, now)
      movie == createStoredMovie(movieData, now)
      lists == Get(storage, "lists")
      my == Get(lists, "myList")
      inMy == FindIndexById(my, Get(movie, "id"))
      after == SetList(storage, "myList", Arr(Append(my.v, movie)))
  IN IF Nullish(lists) \/ inMy = -1 THEN Outcome(ls, Thrown)
     ELSE IF inMy = 0
          THEN Outcome(saveMovieData(ls, env, after, writeOk).ls, after)
     ELSE Outcome(ls, storage)

\* addToMyList putting the movie first
addToMyList_Unshift(ls, env, movieData, now, writeOk) ==
  LET storage == loadMovieData(ls, env, now)
      movie == createStoredMovie(movieData, now)
      lists == Get(storage, "lists")
      my == Get(lists, "myList")
      inMy == FindIndexById(my, Get(movie, "id"))
      inWatched == FindIndexById(Get(lists, "watchedList"), Get(movie, "id"))
      after == SetList(storage, "myList", Arr(<<movie>> \o my.v))
  IN IF Nullish(lists) \/ inMy = -1 \/ inWatched = -1 THEN Outcome(ls, Thrown)
     ELSE IF inMy = 0 /\ inWatched = 0
          THEN Outcome(saveMovieData(ls, env, after, writeOk).ls, after)
     ELSE Outcome(ls, storage)

addToMyList(ls, env, movieData, now, writeOk) ==
  LET storage == loadMovieData(ls, env, now)
      movie == createStoredMovie(movieData, now)
      lists == Get(storage, "lists")
      my == Get(lists, "myList")
      inMy == FindIndexById(my, Get(movie, "id"))
      inWatched == FindIndexById(Get(lists, "watchedList"), Get(movie, "id"))
      after == SetList(storage, "myList", Arr(Append(my.v, movie)))
  IN IF Nullish(lists) \/ inMy = -1 \/ inWatched = -1 THEN Outcome(ls, Thrown)
     ELSE IF inMy = 0 /\ inWatched = 0
          THEN Outcome(saveMovieData(ls, env, after, writeOk).ls, after)
     ELSE Outcome(ls, storage)

\* addToWatchedList that moves a movie watched again to the front
addToWatchedList_MoveToFront(ls, env, movieData, now, writeOk) ==
  LET storage == loadMovieData(ls, env, now)
      movie == SetKey(createStoredMovie(movieData, now), "dateWatched", ToISOString(now))
      lists == Get(storage, "lists")
      my == Get(lists, "myList")
      wl == Get(lists, "watchedList")
      after == SetList(SetList(storage, "myList", RemoveId(my, Get(movie, "id"))),
                       "watchedList", Arr(<<movie>> \o RemoveId(wl, Get(movie, "id")).v))
  IN IF Nullish(lists) \/ FilterRaises(my) \/ FilterRaises(wl) THEN Outcome(ls, Thrown)
     ELSE Outcome(saveMovieData(ls, env, after, writeOk).ls, after)

\* addToWatchedList leaving myList as it is
addToWatchedList_KeepInMyList(ls, env, movieData, now, writeOk) ==
  LET storage == loadMovieData(ls, env, now)
      movie == SetKey(createStoredMovie(movieData, now), "dateWatched", ToISOString(now))
      lists == Get(storage, "lists")
      my == Get(lists, "myList")
      wl == Get(lists, "watchedList")
      existingIndex == FindIndexById(wl, Get(movie, "id"))
      wl2 == IF existingIndex > 0 THEN Arr([wl.v EXCEPT ![existingIndex] = movie])
             ELSE Arr(<<movie>> \o wl.v)
      after == SetList(storage, "watchedList", wl2)
  IN IF Nullish(lists) \/ FilterRaises(my) \/ existingIndex = -1 THEN Outcome(ls, Thrown)
     ELSE Outcome(saveMovieData(ls, env, after, writeOk).ls, after)

addToWatchedList(ls, env, movieData, now, writeOk) ==
  LET storage == loadMovieData(ls, env, now)
      movie == SetKey(createStoredMovie(movieData, now), "dateWatched", ToISOString(now))
      lists == Get(storage, "lists")
      my == Get(lists, "myList")
      wl == Get(lists, "watchedList")
      existingIndex == FindIndexById(wl, Get(movie, "id"))
      wl2 == IF existingIndex > 0 THEN Arr([wl.v EXCEPT ![existingIndex] = movie])
             ELSE Arr(<<movie>> \o wl.v)
      after == SetList(SetList(storage, "myList", RemoveId(my, Get(movie, "id"))),
                       "watchedList", wl2)
  IN IF Nullish(lists) \/ FilterRaises(my) \/ existingIndex = -1 THEN Outcome(ls, Thrown)
     ELSE Outcome(saveMovieData(ls, env, after, writeOk).ls, after)

removeFromList(ls, env, movieId, listType, now, writeOk) ==
  LET storage == loadMovieData(ls, env, now)
      lists == Get(storage, "lists")
      k == IF listType = "myList" THEN "myList" ELSE "watchedList"
      after == SetList(storage, k, RemoveId(Get(lists, k), movieId))
  IN IF Nullish(lists) \/ FilterRaises(Get(lists, k)) THEN Outcome(ls, Thrown)
     ELSE Outcome(saveMovieData(ls, env, after, writeOk).ls, after)

\* list.splice(i, 1)
Splice1(s, i) == SubSeq(s, 1, i - 1) \o SubSeq(s, i + 1, Len(s))

moveToMyList(ls, env, movieId, now, writeOk) ==
  LET storage == loadMovieData(ls, env, now)
      lists == Get(storage, "lists")
      my == Get(lists, "myList")
      wl == Get(lists, "watchedList")
      movieIndex == FindIndexById(wl, movieId)
      movie == wl.v[movieIndex]
      after == SetList(SetList(storage, "watchedList", Arr(Splice1(wl.v, movieIndex))),
                       "myList",
                       Arr(Append(my.v, SetKey(movie, "dateAdded", ToISOString(now)))))
  IN IF Nullish(lists) \/ movieIndex = -1 THEN Outcome(ls, Thrown)
     ELSE IF movieIndex = 0 THEN Outcome(ls, storage)
     ELSE IF ~IsArr(my) THEN Outcome(ls, Thrown)
     ELSE Outcome(saveMovieData(ls, env, after, writeOk).ls, after)

\* blockedMovies.includes(movieId): -1 when it raises (no includes method)
IncludesId(bl, movieId) ==
  IF IsArr(bl) THEN (IF \E i \in DOMAIN bl.v : SameValueZero(bl.v[i], movieId) THEN 1 ELSE 0)
  ELSE -1

\* blockMovie without its includes test
blockMovie_NoIncludesTest(ls, env, movieId, now, writeOk) ==
  LET storage == loadMovieData(ls, env, now)
      lists == Get(storage, "lists")
      bl == Get(lists, "blockedMovies")
      after == SetList(storage, "blockedMovies", Arr(Append(bl.v, movieId)))
  IN IF Nullish(lists) \/ IncludesId(bl, movieId) = -1 THEN Outcome(ls, Thrown)
     ELSE Outcome(saveMovieData(ls, env, after, writeOk).ls, after)

blockMovie(ls, env, movieId, now, writeOk) ==
  LET storage == loadMovieData(ls, env, now)
      lists == Get(storage, "lists")
      bl == Get(lists, "blockedMovies")
      after == SetList(storage, "blockedMovies", Arr(Append(bl.v, movieId)))
  IN IF Nullish(lists) \/ IncludesId(bl, movieId) = -1 THEN Outcome(ls, Thrown)
     ELSE IF IncludesId(bl, movieId) = 0
          THEN Outcome(saveMovieData(ls, env, after, writeOk).ls, after)
     ELSE Outcome(ls, storage)

\* exportData that writes out the lists without the version they carry
exportData_ListsOnly(ls, env, now) ==
  JSONstringify(Get(loadMovieData(ls, env, now), "lists"))

\* exportData: JSON.stringify(storage, null, 2), the text the caller gets
exportData(ls, env, now) == JSONstringify(loadMovieData(ls, env, now))

\* importData(jsonData): the storage afterwards and the boolean returned
importData(ls, env, jsonData, writeOk) ==
  LET data == JSONparse(jsonData)
      saved == saveMovieData(ls, env, data, writeOk)
  IN IF data = Thrown THEN Outcome(ls, Bool(FALSE))
     ELSE Outcome(saved.ls, Bool(saved.ok))

\* reorderMyList(newOrder): the list is replaced by whatever array is given
reorderMyList(ls, env, newOrder, now, writeOk) ==
  LET storage == loadMovieData(ls, env, now)
      after == SetList(storage, "myList", newOrder)
  IN IF Nullish(Get(storage, "lists")) THEN Outcome(ls, Thrown)
     ELSE Outcome(saveMovieData(ls, env, after, writeOk).ls, after)

\* clearAllData: removeItem when there is a window with a localStorage
clearAllData(ls, env) ==
  CASE env = "browser" -> Outcome(<<>>, Undefined)
    [] env = "nostorage" -> Outcome(ls, Thrown)
    [] OTHER -> Outcome(ls, Undefined)

\* x.length
LengthOf(x) ==
  IF x.t \in {"array", "string"} THEN Num(Len(x.v)) ELSE Undefined

\* getUserStats: the counts it returns; the average is kept in tenths,
\* Math.round(total / n * 10), and lastUpdated is the clock reading
getUserStats(ls, env, now) ==
  LET storage == loadMovieData(ls, env, now)
      lists == Get(storage, "lists")
      watchedMovies == Get(lists, "watchedList")
      ratedMovies == SelectSeq(watchedMovies.v, LAMBDA m : Truthy(Get(m, "rating")))
      Sum[i \in 0..Len(ratedMovies)] ==
        IF i = 0 THEN 0 ELSE Sum[i - 1] + Get(ratedMovies[i], "rating").v
      n == Len(ratedMovies)
  IN IF Nullish(lists) \/ FilterRaises(watchedMovies)
        \/ Nullish(Get(lists, "myList")) \/ Nullish(Get(lists, "blockedMovies"))
     THEN Thrown
     ELSE Obj([totalMoviesWatched |-> Num(Len(watchedMovies.v)),
               totalMoviesRated |-> Num(n),
               averageRatingTenths |->
                 Num(IF n > 0 THEN (20 * Sum[n] + n) \div (2 * n) ELSE 0),
               totalMoviesInMyList |-> LengthOf(Get(lists, "myList")),
               totalBlockedMovies |-> LengthOf(Get(lists, "blockedMovies")),
               lastUpdated |-> ToISOString(now)])

(***************************************************************************)
(* lib/tmdb.ts: the remote fetch primitive.  A request is a record         *)
(*   st        "idle", "pending" (a fetch is in flight) or "backoff" (the  *)
(*             retry delay is running)                                     *)
(*   retries   the retries argument of the running fetchWithRetry          *)
(*   timer     whether the abort timer of the attempt is armed             *)
(*   attempts  the fetch calls made since the caller's call                *)
(*   inflight  the fetch calls not settled yet                             *)
(*   last      why the last failed attempt failed                          *)
(* An attempt ends by an event; Settled is what the awaiting caller gets.  *)
(***************************************************************************)
RETRY_CONFIG_maxRetries == 2

IdleRequest ==
  [st |-> "idle", retries |-> 0, timer |-> FALSE, attempts |-> 0, inflight |-> 0,
   last |-> <<>>]

\* what an event makes of a request: m, the request afterwards, and what
\* reaches the awaiting caller (settle "none": nothing yet).  A settled
\* request is over: attempts and last tell how it went.
Waiting(m) ==
  [m |-> m, settle |-> "none", value |-> Undefined, attempts |-> m.attempts,
   last |-> m.last]
Resolved(m, response) ==
  [m |-> IdleRequest, settle |-> "resolve", value |-> response,
   attempts |-> m.attempts, last |-> m.last]
Rejected(m, cause) ==
  [m |-> IdleRequest, settle |-> "reject", value |-> Str(cause),
   attempts |-> m.attempts, last |-> m.last]

\* response.ok
StatusOk(status) == status >= 200 /\ status <= 299

\* a Response: its status and what response.json() gives (Thrown when the
\* body is not JSON)
Response(status, body) == Obj([status |-> Num(status), body |-> body])
Json(response) == Get(response, "body")

\* the body of fetchWithRetry up to its await: a controller, the abort timer,
\* the fetch
fetchWithRetry(m, retries) ==
  [m EXCEPT !.st = "pending", !.retries = retries, !.timer = TRUE,
            !.attempts = @ + 1, !.inflight = @ + 1]

\* the catch block retrying whatever made the attempt fail
fetchWithRetry_catch_RetryAborted(m, cause, aborted) ==
  LET cleared == [m EXCEPT !.timer = FALSE, !.inflight = @ - 1, !.last = cause]
  IN IF cleared.retries > 0
     THEN Waiting([cleared EXCEPT !.st = "backoff"])
     ELSE Rejected(cleared, cause)

\* the catch block retrying once more than the budget allows
fetchWithRetry_catch_OneMore(m, cause, aborted) ==
  LET cleared == [m EXCEPT !.timer = FALSE, !.inflight = @ - 1, !.last = cause]
  IN IF cleared.retries >= 0 /\ ~aborted
     THEN Waiting([cleared EXCEPT !.st = "backoff"])
     ELSE Rejected(cleared, cause)

\* the catch block of fetchWithRetry
fetchWithRetry_catch(m, cause, aborted) ==
  LET cleared == [m EXCEPT !.timer = FALSE, !.inflight = @ - 1, !.last = cause]
  IN IF cleared.retries > 0 /\ ~aborted
     THEN Waiting([cleared EXCEPT !.st = "backoff"])
     ELSE Rejected(cleared, cause)

\* the fetch of a fetchWithRetry attempt resolves with a response
fetchWithRetry_response(m, status, body) ==
  IF StatusOk(status)
  THEN Resolved([m EXCEPT !.timer = FALSE, !.inflight = @ - 1], Response(status, body))
  ELSE fetchWithRetry_catch(m, <<"H", "T", "T", "P">> \o NatToChars(status), FALSE)

\* the fetch of an attempt rejects: the network failed
fetchWithRetry_networkError(m) == fetchWithRetry_catch(m, <<"n", "e", "t">>, FALSE)

\* the abort timer fires: controller.abort() makes the fetch reject
fetchWithRetry_timeout(m) == fetchWithRetry_catch(m, <<"a", "b", "o", "r", "t">>, TRUE)

\* the retry delay has passed: return fetchWithRetry(url, retries - 1)
fetchWithRetry_retry(m) == fetchWithRetry(m, m.retries - 1)

\* a bare fetch(url), as getTopRatedMovies, getSimilarMovies and
\* loadFallbackMovies make it: no timer, no retry
plainFetch(m) ==
  [m EXCEPT !.st = "pending", !.retries = 0, !.timer = FALSE,
            !.attempts = @ + 1, !.inflight = @ + 1]

\* the fetch resolves; `if (!response.ok) throw new Error(failure)`
plainFetch_response(m, status, body, failure) ==
  LET done == [m EXCEPT !.inflight = @ - 1]
  IN IF StatusOk(status) THEN Resolved(done, Response(status, body))
     ELSE Rejected([done EXCEPT !.last = failure], failure)

plainFetch_networkError(m) ==
  Rejected([m EXCEPT !.inflight = @ - 1, !.last = <<"n", "e", "t">>], <<"n", "e", "t">>)

(***************************************************************************)
(* lib/tmdb.ts: the fallback-tiered movie source.  A world w holds what    *)
(* getRecommendations reads and writes:                                    *)
(*   w.net    the request of each endpoint ("popular", "trending",         *)
(*            "similar", "asset")                                          *)
(*   w.cache  cachedFallbackMovies: Null or an array                       *)
(*   w.gr     the activation of getRecommendations: pc (where it is        *)
(*            suspended), its arguments, excludeIds, recommendations, the  *)
(*            index of the watched movie being looked up, the requests     *)
(*            issued per endpoint, okCalls (how many provider calls have   *)
(*            resolved), log (what each provider call gave), and result    *)
(*            (an array, or Thrown when the promise rejected)              *)
(***************************************************************************)
TierBThreshold == 15
TierCLimit == 2
SimilarLimit == 5
EnoughRecommendations == 25
MaxRecommendations == 20

Endpoints == {"popular", "trending", "similar", "asset"}

\* getPopularMovies and getTrendingMovies go through fetchWithRetry
UsesFetchWithRetry(k) == k \in {"popular", "trending", "direct"}

\* the message of the Error a bare-fetch caller throws on a non-success status
FailureMessage(k) == <<"F", "a", "i", "l", "e", "d">>

Min(a, b) == IF a < b THEN a ELSE b

\* array.slice(0, n)
Slice(s, n) == SubSeq(s, 1, Min(n, Len(s)))

\* array.includes(x)
Includes(s, x) == \E i \in DOMAIN s : SameValueZero(s[i], x)

TMDBMovie(n) == Obj([id |-> Num(n)])

hardcodedFallback == Arr(<<TMDBMovie(550), TMDBMovie(278)>>)

\* [...excludeWatchedIds, ...excludeBlockedIds].map(id => parseInt(id))
ExcludeIds(excludeWatchedIds, excludeBlockedIds) ==
  LET all == excludeWatchedIds \o excludeBlockedIds
  IN [i \in DOMAIN all |-> ParseInt(all[i])]

\* the fallback list returned as it is
FilterExcludeIds_Unfiltered(movies, excludeIds) == movies

\* fallbackMovies.filter(movie => !excludeIds.includes(movie.id))
FilterExcludeIds(movies, excludeIds) ==
  SelectSeq(movies, LAMBDA movie : ~Includes(excludeIds, Get(movie, "id")))

\* the filter with the seen set of getRecommendations
RECURSIVE UniqueFrom(_, _, _)
UniqueFrom(recs, seen, excludeIds) ==
  IF recs = <<>> THEN <<>>
  ELSE LET movie == Head(recs)
           id == Get(movie, "id")
       IN IF ~Truthy(movie) \/ id \in seen \/ Includes(excludeIds, id)
          THEN UniqueFrom(Tail(recs), seen, excludeIds)
          ELSE <<movie>> \o UniqueFrom(Tail(recs), seen \cup {id}, excludeIds)

\* the unique list without its .slice(0, 20)
uniqueRecommendations_Uncapped(recs, excludeIds) == UniqueFrom(recs, {}, excludeIds)

uniqueRecommendations(recs, excludeIds) ==
  Slice(UniqueFrom(recs, {}, excludeIds), MaxRecommendations)

\* body.results as an array, Thrown when reading or spreading it raises
\* (response.json() rejected, the body is no object, results is no array)
ResultsOf(body) ==
  IF body = Thrown \/ ~IsObj(body) \/ ~IsArr(Get(body, "results")) THEN Thrown
  ELSE Get(body, "results")

Issue(w, k, request) ==
  [w EXCEPT !.net[k] = request, !.gr.issued[k] = @ + 1]

GR_return(w, list) == [w EXCEPT !.gr.pc = "returned", !.gr.result = Arr(list)]

GR_reject(w) == [w EXCEPT !.gr.pc = "returned", !.gr.result = Thrown]

\* data.popular.map(movie => ({...movie, id: typeof movie.id === 'string' ?
\* parseInt(movie.id) : movie.id})): Thrown when it raises
FallbackMoviesOf(data) ==
  LET popular == Get(data, "popular")
      Convert(movie) ==
        IF IsObj(movie)
        THEN SetKey(movie, "id",
                    IF Get(movie, "id").t = "string" THEN ParseInt(Get(movie, "id"))
                    ELSE Get(movie, "id"))
        ELSE Obj([id |-> Undefined])
  IN IF data = Thrown \/ Nullish(data) \/ MapRaises(popular) THEN Thrown
     ELSE Arr([i \in DOMAIN popular.v |-> Convert(popular.v[i])])

\* loadFallbackMovies letting the failure of its fetch escape
loadFallbackMovies_settled_Rethrow(cache, settle, response) ==
  LET movies == IF settle = "resolve" THEN FallbackMoviesOf(Json(response)) ELSE Thrown
  IN IF movies # Thrown THEN [cache |-> movies, value |-> movies]
     ELSE [cache |-> cache, value |-> Thrown]

\* loadFallbackMovies once its fetch has settled: [cache, value], value being
\* the array it returns
loadFallbackMovies_settled(cache, settle, response) ==
  LET movies == IF settle = "resolve" THEN FallbackMoviesOf(Json(response)) ELSE Thrown
  IN IF movies # Thrown THEN [cache |-> movies, value |-> movies]
     ELSE [cache |-> hardcodedFallback, value |-> hardcodedFallback]

\* `await loadFallbackMovies()` followed, when it returns without a fetch,
\* by the return of the filtered list; pc is where to resume after the fetch
GR_loadFallback(w, pc) ==
  IF w.cache # Null
  THEN GR_return(w, FilterExcludeIds(w.cache.v, w.gr.excludeIds))
  ELSE Issue([w EXCEPT !.gr.pc = pc], "asset", plainFetch(IdleRequest))

\* the unique list returned even when it is empty
GR_finish_NoFallback(w) ==
  GR_return(w, uniqueRecommendations(w.gr.recs, w.gr.excludeIds))

\* the fallback taken only when no tier delivered anything
GR_finish_EmptyWhenExcluded(w) ==
  LET unique == uniqueRecommendations(w.gr.recs, w.gr.excludeIds)
  IN IF Len(w.gr.recs) > 0 THEN GR_return(w, unique)
     ELSE GR_loadFallback(w, "catchAsset")

\* lines 388-419: the unique list when it is not empty, else the fallback
GR_finish(w) ==
  LET unique == uniqueRecommendations(w.gr.recs, w.gr.excludeIds)
  IN IF Len(unique) > 0 THEN GR_return(w, unique)
     ELSE GR_loadFallback(w, "catchAsset")

\* the for loop of Strategy 3 from its i-th movie on
RECURSIVE GR_similarFrom(_, _)
GR_similarFrom(w, i) ==
  LET recentWatched == Slice(w.gr.watchedMovies, TierCLimit)
  IN IF i > Len(recentWatched) THEN GR_finish(w)
     ELSE IF Nullish(recentWatched[i]) THEN GR_similarFrom(w, i + 1)
     ELSE Issue([w EXCEPT !.gr.pc = "similar", !.gr.idx = i], "similar",
                plainFetch(IdleRequest))

\* Strategy 3
GR_strategy3(w) ==
  IF Len(w.gr.recs) > 0 /\ Len(w.gr.watchedMovies) > 0 THEN GR_similarFrom(w, 1)
  ELSE GR_finish(w)

\* Strategy 2 asking for trending also at exactly TierBThreshold items
GR_strategy2_AtThreshold(w) ==
  IF Len(w.gr.recs) <= TierBThreshold
  THEN Issue([w EXCEPT !.gr.pc = "trending"], "trending",
             fetchWithRetry(IdleRequest, RETRY_CONFIG_maxRetries))
  ELSE GR_strategy3(w)

\* Strategy 2
GR_strategy2(w) ==
  IF Len(w.gr.recs) < TierBThreshold
  THEN Issue([w EXCEPT !.gr.pc = "trending"], "trending",
             fetchWithRetry(IdleRequest, RETRY_CONFIG_maxRetries))
  ELSE GR_strategy3(w)

\* popular.results of a settled call: Thrown when the call rejected or
\* reading the results raises
Results(settle, response) ==
  IF settle = "resolve" THEN ResultsOf(Json(response)) ELSE Thrown

\* recommendations.push(...results), skipped when the try block raised
Push(w, results) ==
  IF results = Thrown THEN w ELSE [w EXCEPT !.gr.recs = @ \o results.v]

\* a provider call (getPopularMovies, getTrendingMovies, getSimilarMovies)
\* resolves when its fetch does and the body is JSON
Counted(w, settle, response) ==
  IF w.gr.pc \in {"popular", "trending", "similar"} /\ settle = "resolve"
     /\ Json(response) # Thrown
  THEN [w EXCEPT !.gr.okCalls = @ + 1]
  ELSE w

\* what each provider call of the activation gave, in the order the calls
\* settled: the tier, which watched movie was looked up, its results (Thrown
\* when its try block raised) and recommendations.length when it settled
Logged(w, settle, response) ==
  IF w.gr.pc \in {"popular", "trending", "similar"}
  THEN [w EXCEPT !.gr.log = Append(@, [tier |-> w.gr.pc,
                                       idx |-> w.gr.idx,
                                       results |-> Results(settle, response),
                                       size |-> Len(w.gr.recs)])]
  ELSE w

\* getRecommendations with one try block around the three strategies: the
\* first failing provider call ends them
GR_resume_AbortOnFailure(w0, settle, response) ==
  LET w == Logged(Counted(w0, settle, response), settle, response) IN
  CASE w.gr.pc \in {"popular", "trending", "similar"}
       /\ Results(settle, response) = Thrown -> GR_finish(w)
    [] w.gr.pc = "popular" -> GR_strategy2(Push(w, Results(settle, response)))
    [] w.gr.pc = "trending" -> GR_strategy3(Push(w, Results(settle, response)))
    [] w.gr.pc = "similar" ->
         LET results == Results(settle, response)
             pushed == Push(w, IF results = Thrown THEN Thrown
                               ELSE Arr(Slice(results.v, SimilarLimit)))
         IN IF results # Thrown /\ Len(pushed.gr.recs) >= EnoughRecommendations
            THEN GR_finish(pushed)
            ELSE GR_similarFrom(pushed, w.gr.idx + 1)
    [] w.gr.pc \in {"fastAsset", "catchAsset"} ->
         LET loaded == loadFallbackMovies_settled(w.cache, settle, response)
             cached == [w EXCEPT !.cache = loaded.cache]
         IN IF loaded.value # Thrown
            THEN GR_return(cached, FilterExcludeIds(loaded.value.v, w.gr.excludeIds))
            ELSE IF w.gr.pc = "fastAsset" THEN GR_reject(cached)
            ELSE GR_return(cached, <<>>)
    [] OTHER -> w

\* getRecommendations resumes: the request it awaits has settled
GR_resume(w0, settle, response) ==
  LET w == Logged(Counted(w0, settle, response), settle, response) IN
  CASE w.gr.pc = "popular" -> GR_strategy2(Push(w, Results(settle, response)))
    [] w.gr.pc = "trending" -> GR_strategy3(Push(w, Results(settle, response)))
    [] w.gr.pc = "similar" ->
         LET results == Results(settle, response)
             pushed == Push(w, IF results = Thrown THEN Thrown
                               ELSE Arr(Slice(results.v, SimilarLimit)))
         IN IF results # Thrown /\ Len(pushed.gr.recs) >= EnoughRecommendations
            THEN GR_finish(pushed)
            ELSE GR_similarFrom(pushed, w.gr.idx + 1)
    [] w.gr.pc \in {"fastAsset", "catchAsset"} ->
         LET loaded == loadFallbackMovies_settled(w.cache, settle, response)
             cached == [w EXCEPT !.cache = loaded.cache]
         IN IF loaded.value # Thrown
            THEN GR_return(cached, FilterExcludeIds(loaded.value.v, w.gr.excludeIds))
            ELSE IF w.gr.pc = "fastAsset" THEN GR_reject(cached)
            ELSE GR_return(cached, <<>>)
    [] OTHER -> w

\* getRecommendations without the fast path for a missing credential
getRecommendations_NoFastPath(w, apiKey, excludeWatchedIds, excludeBlockedIds, watchedMovies) ==
  Issue([w EXCEPT !.gr = [pc |-> "popular",
                          excludeWatchedIds |-> excludeWatchedIds,
                          excludeBlockedIds |-> excludeBlockedIds,
                          watchedMovies |-> watchedMovies,
                          excludeIds |-> ExcludeIds(excludeWatchedIds, excludeBlockedIds),
                          recs |-> <<>>, idx |-> 0,
                          issued |-> [k \in Endpoints |-> 0], okCalls |-> 0, log |-> <<>>,
                          result |-> Undefined]],
        "popular", fetchWithRetry(IdleRequest, RETRY_CONFIG_maxRetries))

\* the call: getRecommendations(excludeWatchedIds, excludeBlockedIds,
\* watchedMovies) up to its first await
getRecommendations(w, apiKey, excludeWatchedIds, excludeBlockedIds, watchedMovies) ==
  LET called ==
        [w EXCEPT !.gr = [pc |-> "called",
                          excludeWatchedIds |-> excludeWatchedIds,
                          excludeBlockedIds |-> excludeBlockedIds,
                          watchedMovies |-> watchedMovies,
                          excludeIds |-> ExcludeIds(excludeWatchedIds, excludeBlockedIds),
                          recs |-> <<>>, idx |-> 0,
                          issued |-> [k \in Endpoints |-> 0], okCalls |-> 0, log |-> <<>>,
                          result |-> Undefined]]
  IN IF ~apiKey THEN GR_loadFallback(called, "fastAsset")
     ELSE Issue([called EXCEPT !.gr.pc = "popular"], "popular",
                fetchWithRetry(IdleRequest, RETRY_CONFIG_maxRetries))

(***************************************************************************)
(* src/lib/recommendations.ts: the recommendation service of the UI.       *)
(* Movies keep the fields the service's decisions read: id, genre, and     *)
(* for a UIRecommendation its reason.                                      *)
(*   ui    the activation of getRecommendationsForUI: pc ("idle",          *)
(*         "popular", "trending", "returned"), the userLists it read from  *)
(*         the store when called, limit, and result                        *)
(***************************************************************************)
TopRecommendations == 10

\* the Set excludedIds of filterExcludedMovies
excludedIds(userLists) ==
  LET watched == Get(userLists, "watchedList")
      blocked == Get(userLists, "blockedMovies")
  IN (IF IsArr(watched)
      THEN {Get(watched.v[i], "id") :
              i \in {j \in DOMAIN watched.v :
                       Truthy(watched.v[j]) /\ Truthy(Get(watched.v[j], "id"))}}
      ELSE {})
     \cup
     (IF IsArr(blocked)
      THEN {blocked.v[i] : i \in {j \in DOMAIN blocked.v : Truthy(blocked.v[j])}}
      ELSE {})

\* filterExcludedMovies that looks movie.id up without .toString()
filterExcludedMovies_NoToString(movies, userLists) ==
  IF ~IsArr(movies) \/ movies.v = <<>> THEN <<>>
  ELSE IF ~Truthy(userLists) THEN movies.v
  ELSE SelectSeq(movies.v,
                 LAMBDA movie : /\ Truthy(movie)
                                /\ Truthy(Get(movie, "id"))
                                /\ Get(movie, "id") \notin excludedIds(userLists))

\* filterExcludedMovies(movies, userLists): the array returned
filterExcludedMovies(movies, userLists) ==
  IF ~IsArr(movies) \/ movies.v = <<>> THEN <<>>
  ELSE IF ~Truthy(userLists) THEN movies.v
  ELSE SelectSeq(movies.v,
                 LAMBDA movie : /\ Truthy(movie)
                                /\ Truthy(Get(movie, "id"))
                                /\ toString(Get(movie, "id")) \notin excludedIds(userLists))

\* convertTMDBToMovie: a list movie carries no genres
convertTMDBToMovie(tmdbMovie) ==
  Obj([id |-> toString(Get(tmdbMovie, "id")), genre |-> Undefined])

\* movies.slice(0, 10).map(convertTMDBToMovie)
TopConverted(movies) ==
  LET top == Slice(movies, TopRecommendations)
  IN [i \in DOMAIN top |-> convertTMDBToMovie(top[i])]

\* getPopularRecommendations once getPopularMovies has settled: an invalid
\* response and a rejection both end in the catch block, which returns []
getPopularRecommendations_settled(settle, response, userLists) ==
  LET movies == IF settle = "resolve" THEN ResultsOf(Json(response)) ELSE Thrown
  IN IF movies = Thrown THEN <<>>
     ELSE TopConverted(filterExcludedMovies(movies, userLists))

\* getTrendingRecommendations once getTrendingMovies has settled
getTrendingRecommendations_settled(settle, response, userLists) ==
  LET body == IF settle = "resolve" THEN Json(response) ELSE Thrown
  IN IF body = Thrown \/ Nullish(body) THEN <<>>
     ELSE TopConverted(filterExcludedMovies(Get(body, "results"), userLists))

\* the offline list of getFallbackRecommendations
OfflineRecommendation(n, reason) ==
  Obj([id |-> toString(Num(n)), genre |-> Str(<<"D">>), reason |-> Str(reason)])

hardcodedRecommendations ==
  <<OfflineRecommendation(550, <<"P">>), OfflineRecommendation(278, <<"H">>),
    OfflineRecommendation(13, <<"C">>), OfflineRecommendation(238, <<"M">>),
    OfflineRecommendation(680, <<"U">>)>>

getFallbackRecommendations(limit) == Slice(hardcodedRecommendations, limit)

\* getRecommendationExplanation(hasWatchedMovies)
getRecommendationExplanation(hasWatchedMovies) ==
  IF ~hasWatchedMovies THEN Str(<<"p">>) ELSE Str(<<"r">>)

\* convertToUIFormat(movies, limit), storage being what loadMovieData gives
convertToUIFormat(movies, limit, storage) ==
  LET hasWatchedMovies == Get(Get(storage, "lists"), "watchedList").v # <<>>
      top == Slice(movies, limit)
  IN [i \in DOMAIN top |->
        Obj([id |-> Get(top[i], "id"),
             genre |-> OrElse(Get(top[i], "genre"), Str(<<"U">>)),
             reason |-> getRecommendationExplanation(hasWatchedMovies)])]

UI_return(w, list) == [w EXCEPT !.ui.pc = "returned", !.ui.result = list]

\* the end of getRecommendationsForUI: recommendations in the UI format, or
\* the offline list when there are none
UI_finish(w, recommendations, storage) ==
  IF recommendations # <<>>
  THEN UI_return(w, convertToUIFormat(recommendations, w.ui.limit, storage))
  ELSE UI_return(w, getFallbackRecommendations(w.ui.limit))

\* getRecommendationsForUI resumes: the request it awaits has settled
UI_resume(w, settle, response, storage) ==
  IF w.ui.pc = "popular"
  THEN LET popular == getPopularRecommendations_settled(settle, response, w.ui.userLists)
       IN IF popular # <<>> THEN UI_finish(w, popular, storage)
          ELSE [w EXCEPT !.ui.pc = "trending",
                         !.net["trending"] =
                            fetchWithRetry(IdleRequest, RETRY_CONFIG_maxRetries)]
  ELSE UI_finish(w, getTrendingRecommendations_settled(settle, response, w.ui.userLists),
                 storage)

\* the call: getRecommendationsForUI(_candidates, limit) up to its first
\* await, storage being what loadMovieData gives.  Without a credential
\* getPopularMovies and getTrendingMovies reject at once.
getRecommendationsForUI(w, apiKey, storage, limit) ==
  LET lists == Get(storage, "lists")
      called == [w EXCEPT !.ui = [pc |-> "called",
                                  userLists |->
                                    Obj([watchedList |->
                                           OrElse(Get(lists, "watchedList"), Arr(<<>>)),
                                         blockedMovies |->
                                           OrElse(Get(lists, "blockedMovies"), Arr(<<>>))]),
                                  limit |-> limit,
                                  result |-> <<>>]]
  IN IF ~IsObj(lists) \/ ~apiKey THEN UI_finish(called, <<>>, storage)
     ELSE [called EXCEPT !.ui.pc = "popular",
                         !.net["popular"] =
                            fetchWithRetry(IdleRequest, RETRY_CONFIG_maxRetries)]

(***************************************************************************)
(* src/lib/recommendations.ts: getMixedRecommendations.                    *)
(*   mx    its activation: pc ("idle", "awaiting" while Promise.all waits, *)
(*         "basicPopular" and "basicTrending" in the catch block,          *)
(*         "returned"), userLists, the list each source gave (lists), the  *)
(*         sources still awaited (pending), those whose provider call      *)
(*         rejected (failed), whether getBasicRecommendations was invoked  *)
(*         (delegated), and result                                         *)
(***************************************************************************)
MaxPerCategory == 4
MaxMixed == 10

MixedEndpoints == {"popular", "trending", "toprated"}

\* getTopRatedRecommendations once getTopRatedMovies has settled
getTopRatedRecommendations_settled(settle, response, userLists) ==
  LET body == IF settle = "resolve" THEN Json(response) ELSE Thrown
  IN IF body = Thrown \/ Nullish(body) THEN <<>>
     ELSE TopConverted(filterExcludedMovies(Get(body, "results"), userLists))

\* the for loop over one category: [mixed, addedIds] afterwards
RECURSIVE AddCategory(_, _, _, _)
AddCategory(categoryMovies, mixed, addedIds, added) ==
  IF categoryMovies = <<>> THEN [mixed |-> mixed, addedIds |-> addedIds]
  ELSE LET movie == Head(categoryMovies)
           id == Get(movie, "id")
       IN IF id \notin addedIds /\ added < MaxPerCategory
          THEN AddCategory(Tail(categoryMovies), Append(mixed, movie),
                           addedIds \cup {id}, added + 1)
          ELSE AddCategory(Tail(categoryMovies), mixed, addedIds, added)

\* the mixing without the final slice
MixCategories_NoCap(popular, trending, topRated) ==
  LET a == AddCategory(popular, <<>>, {}, 0)
      b == AddCategory(trending, a.mixed, a.addedIds, 0)
      c == AddCategory(topRated, b.mixed, b.addedIds, 0)
  IN c.mixed

\* [popular, trending, topRated].forEach(...); mixed.slice(0, 10)
MixCategories(popular, trending, topRated) ==
  LET a == AddCategory(popular, <<>>, {}, 0)
      b == AddCategory(trending, a.mixed, a.addedIds, 0)
      c == AddCategory(topRated, b.mixed, b.addedIds, 0)
  IN Slice(c.mixed, MaxMixed)

MX_return(w, list) == [w EXCEPT !.mx.pc = "returned", !.mx.result = list]

\* Promise.all has settled: it rejects when one of the three promises did,
\* and the catch block then starts getBasicRecommendations
MX_join(w) ==
  IF \E c \in MixedEndpoints : w.mx.lists[c] = Thrown
  THEN [w EXCEPT !.mx.pc = "basicPopular", !.mx.delegated = TRUE,
                 !.net["popular"] = fetchWithRetry(IdleRequest, RETRY_CONFIG_maxRetries)]
  ELSE MX_return(w, MixCategories(w.mx.lists["popular"].v, w.mx.lists["trending"].v,
                                  w.mx.lists["toprated"].v))

\* what source k gives once its provider call has settled
MX_source(k, settle, response, userLists) ==
  CASE k = "popular" -> getPopularRecommendations_settled(settle, response, userLists)
    [] k = "trending" -> getTrendingRecommendations_settled(settle, response, userLists)
    [] OTHER -> getTopRatedRecommendations_settled(settle, response, userLists)

\* getMixedRecommendations resumes: the request of source k has settled
MX_resume(w, k, settle, response) ==
  CASE w.mx.pc = "awaiting" ->
         LET rejected == settle # "resolve" \/ Json(response) = Thrown
             got == [w EXCEPT !.mx.lists[k] = Arr(MX_source(k, settle, response, w.mx.userLists)),
                              !.mx.pending = @ \ {k},
                              !.mx.failed = IF rejected THEN @ \cup {k} ELSE @]
         IN IF got.mx.pending = {} THEN MX_join(got) ELSE got
    [] w.mx.pc = "basicPopular" ->
         LET popular == getPopularRecommendations_settled(settle, response, w.mx.userLists)
         IN IF popular # <<>> THEN MX_return(w, popular)
            ELSE [w EXCEPT !.mx.pc = "basicTrending",
                           !.net["trending"] =
                              fetchWithRetry(IdleRequest, RETRY_CONFIG_maxRetries)]
    [] OTHER ->
         MX_return(w, getTrendingRecommendations_settled(settle, response, w.mx.userLists))

\* the call: getMixedRecommendations(userLists) up to Promise.all.  Without
\* a credential the three provider functions reject at once.
getMixedRecommendations(w, apiKey, userLists) ==
  LET called == [w EXCEPT !.mx = [pc |-> "awaiting", userLists |-> userLists,
                                  lists |-> [c \in MixedEndpoints |-> Arr(<<>>)],
                                  pending |-> MixedEndpoints, failed |-> {},
                                  delegated |-> FALSE, result |-> <<>>]]
  IN IF ~apiKey
     THEN MX_join([called EXCEPT !.mx.pending = {}, !.mx.failed = MixedEndpoints])
     ELSE [called EXCEPT !.net["popular"] =
                            fetchWithRetry(IdleRequest, RETRY_CONFIG_maxRetries),
                         !.net["trending"] =
                            fetchWithRetry(IdleRequest, RETRY_CONFIG_maxRetries),
                         !.net["toprated"] = plainFetch(IdleRequest)]

(***************************************************************************)
(* Inputs of the store operations.                                         *)
(***************************************************************************)
\* the ids of the movies a user can be shown: those of the offline list of
\* getFallbackRecommendations, the first NumMovies of them
KnownIds == <<550, 278, 13, 238, 680>>
NumMovies == 2

\* the clock readings new Date() gives: the operations of one session are
\* taken at one instant
Times == {1}
MovieIndex == 1..NumMovies
MovieId(i) == toString(Num(KnownIds[i]))
MovieIds == {MovieId(i) : i \in MovieIndex}

\* the loosely-shaped movieData the UI handlers pass: with posterUrl and a
\* userRating, with poster and rating, or with neither year nor rating
MovieInput(i) ==
  CASE i % 3 = 1 ->
         Obj([id |-> MovieId(i), title |-> Str(<<"A">>), year |-> Num(1999),
              genre |-> Str(<<"D">>), posterUrl |-> Str(<<"u">>),
              rating |-> Num(4), userRating |-> Num(5)])
    [] i % 3 = 2 ->
         Obj([id |-> MovieId(i), title |-> Str(<<"B">>),
              poster |-> Str(<<"p">>), rating |-> Num(3)])
    [] OTHER ->
         Obj([id |-> MovieId(i), title |-> Str(<<"C">>), genre |-> Str(<<"K">>),
              rating |-> Num(0)])

\* a movie as an older version stored it: the first with its dateAdded and
\* a dateWatched, the others without
LegacyMovie(i) ==
  IF i = 1
  THEN Obj([id |-> toString(Num(KnownIds[i])), title |-> Str(<<"A">>),
            year |-> Num(1999), genre |-> Str(<<"D">>), poster |-> Str(<<"p">>),
            rating |-> Num(4), dateAdded |-> Str(<<"T", "0">>),
            dateWatched |-> Str(<<"T", "0">>)])
  ELSE Obj([id |-> toString(Num(KnownIds[i])), title |-> Str(<<"B">>),
            rating |-> Num(0)])

Malformed == Str(<<"x">>)

\* a stored record: only the fields that are given are written
Record(version, lists) ==
  JSONText(ToJSON(Obj([version |-> version, lists |-> ToJSON(Obj(lists))])))

\* records of an older version: each list field absent, a list, or of a
\* malformed shape
LegacyRecords ==
  {Record(version,
          [myList |-> my, wantToWatch |-> w2w, watched |-> wd, blocked |-> bl]) :
     version \in {Undefined, Str(<<"1", ".", "0">>)},
     my \in {Undefined, Arr(<<LegacyMovie(3)>>)},
     w2w \in {Undefined, Arr(<<LegacyMovie(1), LegacyMovie(2)>>), Arr(<<>>), Malformed},
     wd \in {Undefined, Arr(<<LegacyMovie(3)>>), Malformed, Num(0)},
     bl \in {Undefined, Arr(<<toString(Num(13))>>), Malformed}}

\* records of the current version: one that lists an id twice, one without
\* its lists
CurrentRecords ==
  {Record(STORAGE_VERSION,
          [myList |-> Arr(<<LegacyMovie(1)>>), watchedList |-> Arr(<<LegacyMovie(1)>>),
           blockedMovies |-> Arr(<<toString(Num(13)), toString(Num(13))>>)]),
   JSONText(Obj([version |-> STORAGE_VERSION]))}

\* JSON documents that are no records, and texts that are no JSON
OtherTexts ==
  {JSONText(Null), JSONText(Num(5)), JSONText(Arr(<<>>)), JSONText(Malformed),
   JSONText(Bool(TRUE)), RawText(<<"{">>), RawText(<<>>)}

\* what localStorage may hold under STORAGE_KEY when the page is opened
StoredTexts == LegacyRecords \cup CurrentRecords \cup OtherTexts

\* the files a user imports
ImportTexts ==
  CurrentRecords \cup
  {JSONText(Null), RawText(<<"{">>),
   Record(Str(<<"1", ".", "0">>),
          [wantToWatch |-> Arr(<<LegacyMovie(1), LegacyMovie(2)>>),
           watched |-> Arr(<<LegacyMovie(1)>>),
           blocked |-> Arr(<<toString(Num(13))>>)]),
   Record(Str(<<"1", ".", "0">>),
          [wantToWatch |-> Arr(<<LegacyMovie(1)>>), watched |-> Malformed])}

\* the arrays reorderMyList is given: the list the other way round, and a
\* list of the caller's own
NewOrders(storage) ==
  LET my == Get(Get(storage, "lists"), "myList")
  IN {Arr(<<createStoredMovie(MovieInput(1), 1)>>)}
     \cup (IF IsArr(my) THEN {Arr([i \in DOMAIN my.v |-> my.v[Len(my.v) + 1 - i]])}
           ELSE {})

(***************************************************************************)
(* Inputs of the movie source.                                             *)
(***************************************************************************)
\* HTTP statuses the provider answers with
Statuses == {200, 404, 429, 500}

\* the retry budgets a direct fetchWithRetry(url, retries) call is made with
MaxRetriesArg == 2

Page(ids) == Obj([results |-> Arr([i \in DOMAIN ids |-> TMDBMovie(ids[i])])])

\* a full provider page of 20 movies
FullPage == Page([i \in 1..20 |-> 100 + i])

\* what response.json() of a provider response can give: pages (one with a
\* null entry, one empty), an error document without results, no JSON at all
ProviderBodies ==
  {Page(<<550, 278>>), Page(<<278, 13, 550>>), Page(<<>>), FullPage,
   Obj([results |-> Arr(<<Null, TMDBMovie(13)>>)]),
   Obj([status_message |-> Str(<<"e">>)]),
   Thrown}

\* /data/fallback-movies.json: a popular array whose ids may be strings
FallbackAsset ==
  Obj([popular |-> Arr(<<Obj([id |-> Str(<<"5", "5", "0">>)]),
                         Obj([id |-> Num(13)]),
                         Obj([id |-> Str(<<"2", "3", "8">>)])>>)])

AssetBodies == {FallbackAsset, Obj([popular |-> Null]), Thrown}

\* the top-rated source also has a page that overlaps the others in one id
TopRatedBodies == ProviderBodies \cup {Page(<<550, 238, 680, 201, 202>>)}

\* the popular source also has pages of one less than TierBThreshold
\* movies and of exactly as many
Bodies(k) ==
  CASE k = "asset" -> AssetBodies
    [] k = "toprated" -> TopRatedBodies
    [] k = "popular" ->
         ProviderBodies \cup {Page([i \in 1..(TierBThreshold - 1) |-> 100 + i]),
                              Page([i \in 1..TierBThreshold |-> 100 + i])}
    [] OTHER -> ProviderBodies

\* excludeWatchedIds, excludeBlockedIds: ids of the store
ExcludeWatched == {<<>>, <<toString(Num(550))>>, <<toString(Num(550)), toString(Num(278))>>}
ExcludeBlocked == {<<>>, <<toString(Num(13))>>, <<toString(Num(13)), toString(Num(278))>>}

\* the userLists getMixedRecommendations is called with
MixedUserLists ==
  {Obj([watchedList |-> Arr(<<>>), blockedMovies |-> Arr(<<>>)]),
   Obj([watchedList |-> Arr(<<Obj([id |-> toString(Num(278))])>>),
        blockedMovies |-> Arr(<<toString(Num(13))>>)])}

\* the limits the UI asks for: the single card and the demo's three
Limits == {1, 3}

\* watchedMovies
WatchedArgs ==
  {<<>>,
   <<Obj([id |-> toString(Num(13))])>>,
   <<Null, Obj([id |-> toString(Num(550))]), Obj([id |-> toString(Num(278))])>>,
   <<Obj([id |-> toString(Num(13))]), Obj([id |-> toString(Num(550))]),
     Obj([id |-> toString(Num(278))])>>}

VARIABLES
  env,        \* "browser", "nostorage" or "server"
  ls,         \* localStorage: <<>> or <<text stored under STORAGE_KEY>>
  ret,        \* what the last store operation returned (Thrown if it raised)
  op,         \* the last store operation and its argument
  exported,   \* <<the text exportData just returned>>, else <<>>
  apiKey,     \* whether TMDB_API_KEY is configured
  net,        \* the request of each endpoint
  cachedFallbackMovies,
  gr,         \* the activation of getRecommendations
  ui,         \* the activation of getRecommendationsForUI
  mx,         \* the activation of getMixedRecommendations
  direct,     \* a direct fetchWithRetry(url, retries) call and what it gave
  loaders     \* getRecommendations calls that run side by side

storeVars == <<env, ls, ret, op, exported>>
netVars == <<apiKey, net, cachedFallbackMovies, gr, ui, mx, direct, loaders>>
vars ==
  <<env, ls, ret, op, exported, apiKey, net, cachedFallbackMovies, gr, ui, mx, direct,
    loaders>>

Requests == Endpoints \cup {"direct", "toprated"}

IdleGR ==
  [pc |-> "idle", excludeWatchedIds |-> <<>>, excludeBlockedIds |-> <<>>,
   watchedMovies |-> <<>>, excludeIds |-> <<>>, recs |-> <<>>, idx |-> 0,
   issued |-> [k \in Endpoints |-> 0], okCalls |-> 0, log |-> <<>>, result |-> Undefined]

IdleUI ==
  [pc |-> "idle", userLists |-> Undefined, limit |-> 0, result |-> <<>>]

IdleMX ==
  [pc |-> "idle", userLists |-> Undefined, lists |-> [c \in MixedEndpoints |-> Arr(<<>>)],
   pending |-> {}, failed |-> {}, delegated |-> FALSE, result |-> <<>>]

IdleDirect ==
  [pc |-> "idle", budget |-> 0, settle |-> "none", value |-> Undefined,
   attempts |-> 0, last |-> <<>>]

\* callers of getRecommendations whose executions may overlap
NumCallers == 2
Callers == 1..NumCallers

\* no call is running; fetched counts the requests made for the bundled
\* asset
IdleLoaders ==
  [act |-> [c \in Callers |-> [pc |-> "idle", excludeIds |-> <<>>, result |-> Undefined]],
   fetched |-> 0]

\* the store before its first use
StoreIdle ==
  /\ ls = <<>>
  /\ ret = Undefined
  /\ op = [name |-> "init", arg |-> Undefined, writeOk |-> TRUE]
  /\ exported = <<>>

\* the movie source before its first use
NetIdle ==
  /\ net = [k \in Requests |-> IdleRequest]
  /\ cachedFallbackMovies = Null
  /\ gr = IdleGR
  /\ ui = IdleUI
  /\ mx = IdleMX
  /\ direct = IdleDirect
  /\ loaders = IdleLoaders

(***************************************************************************)
(* The store operations.                                                   *)
(***************************************************************************)
\* writeOk: whether a localStorage.setItem made by the call succeeds
Call(name, arg, writeOk) == [name |-> name, arg |-> arg, writeOk |-> writeOk]

Finish(o, name, arg, writeOk) ==
  /\ ls' = o.ls
  /\ ret' = o.ret
  /\ op' = Call(name, arg, writeOk)
  /\ exported' = <<>>
  /\ UNCHANGED env

AddToMyList ==
  \E i \in MovieIndex, now \in Times, writeOk \in BOOLEAN :
    Finish(addToMyList(ls, env, MovieInput(i), now, writeOk),
           "addToMyList", MovieId(i), writeOk)

AddToWatchedList ==
  \E i \in MovieIndex, now \in Times, writeOk \in BOOLEAN :
    Finish(addToWatchedList(ls, env, MovieInput(i), now, writeOk),
           "addToWatchedList", MovieId(i), writeOk)

RemoveFromList ==
  \E id \in MovieIds, listType \in {"myList", "watchedList"}, now \in Times,
     writeOk \in BOOLEAN :
    Finish(removeFromList(ls, env, id, listType, now, writeOk),
           "removeFromList", id, writeOk)

MoveToMyList ==
  \E id \in MovieIds, now \in Times, writeOk \in BOOLEAN :
    Finish(moveToMyList(ls, env, id, now, writeOk), "moveToMyList", id, writeOk)

BlockMovie ==
  \E id \in MovieIds, now \in Times, writeOk \in BOOLEAN :
    Finish(blockMovie(ls, env, id, now, writeOk), "blockMovie", id, writeOk)

ExportData ==
  \E now \in Times :
    /\ exported' = <<exportData(ls, env, now)>>
    /\ op' = Call("exportData", Undefined, TRUE)
    /\ ret' = Undefined
    /\ UNCHANGED <<env, ls>>

\* the backup just exported is restored
ImportData ==
  \E writeOk \in BOOLEAN :
    /\ exported # <<>>
    /\ Finish(importData(ls, env, exported[1], writeOk), "importData", Undefined, writeOk)

ReorderMyList ==
  \E now \in Times, writeOk \in BOOLEAN :
    \E newOrder \in NewOrders(loadMovieData(ls, env, now)) :
      Finish(reorderMyList(ls, env, newOrder, now, writeOk),
             "reorderMyList", Undefined, writeOk)

ClearAllData == Finish(clearAllData(ls, env), "clearAllData", Undefined, TRUE)

\* a backup file is imported
ImportSnapshot ==
  \E jsonData \in ImportTexts, writeOk \in BOOLEAN :
    Finish(importData(ls, env, jsonData, writeOk), "importSnapshot", Undefined, writeOk)

\* a component reads the store
LoadMovieData ==
  \E now \in Times :
    Finish(Outcome(ls, loadMovieData(ls, env, now)), "loadMovieData", Undefined, TRUE)

GetUserStats ==
  \E now \in Times :
    Finish(Outcome(ls, getUserStats(ls, env, now)), "getUserStats", Undefined, TRUE)

StoreNext ==
  \/ AddToMyList
  \/ AddToWatchedList
  \/ RemoveFromList
  \/ MoveToMyList
  \/ BlockMovie
  \/ ExportData
  \/ ImportData

(***************************************************************************)
(* The movie source: calls, and the events that end an attempt.            *)
(***************************************************************************)
World == [net |-> net, cache |-> cachedFallbackMovies, gr |-> gr, ui |-> ui, mx |-> mx]

Become(w) ==
  /\ net' = w.net
  /\ cachedFallbackMovies' = w.cache
  /\ gr' = w.gr
  /\ ui' = w.ui
  /\ mx' = w.mx
  /\ loaders' = loaders

\* the caller awaiting the request that has settled runs on
Resume(w, k, settle, response) ==
  IF w.mx.pc \in {"awaiting", "basicPopular", "basicTrending"}
  THEN Become(MX_resume(w, k, settle, response))
  ELSE IF w.ui.pc \in {"popular", "trending"}
  THEN \E now \in Times : Become(UI_resume(w, settle, response, loadMovieData(ls, env, now)))
  ELSE Become(GR_resume(w, settle, response))

\* the event has ended an attempt of request k with r; when the request has
\* settled, its caller runs on to its next await
Deliver(k, r) ==
  LET w == [World EXCEPT !.net[k] = r.m]
  IN IF k = "direct"
     THEN /\ Become(w)
          /\ direct' = IF r.settle = "none" THEN direct
                       ELSE [direct EXCEPT !.pc = "settled", !.settle = r.settle,
                                           !.value = r.value,
                                           !.attempts = r.attempts, !.last = r.last]
     ELSE /\ IF r.settle = "none" THEN Become(w) ELSE Resume(w, k, r.settle, r.value)
          /\ UNCHANGED direct

\* the provider (or, for the asset, the application's own server) answers
Responds(k) ==
  /\ net[k].st = "pending"
  /\ \E status \in Statuses :
       \E body \in IF StatusOk(status) THEN Bodies(k) ELSE {Null} :
         Deliver(k, IF UsesFetchWithRetry(k)
                    THEN fetchWithRetry_response(net[k], status, body)
                    ELSE plainFetch_response(net[k], status, body, FailureMessage(k)))
  /\ UNCHANGED <<storeVars, apiKey>>

\* the connection fails
NetworkError(k) ==
  /\ net[k].st = "pending"
  /\ Deliver(k, IF UsesFetchWithRetry(k) THEN fetchWithRetry_networkError(net[k])
                ELSE plainFetch_networkError(net[k]))
  /\ UNCHANGED <<storeVars, apiKey>>

\* RETRY_CONFIG.timeout has passed without an answer
TimeoutFires(k) ==
  /\ net[k].st = "pending"
  /\ net[k].timer
  /\ Deliver(k, fetchWithRetry_timeout(net[k]))
  /\ UNCHANGED <<storeVars, apiKey>>

\* RETRY_CONFIG.retryDelay has passed
RetryDelayPasses(k) ==
  /\ net[k].st = "backoff"
  /\ Deliver(k, Waiting(fetchWithRetry_retry(net[k])))
  /\ UNCHANGED <<storeVars, apiKey>>

\* a caller calls fetchWithRetry(url, retries)
CallFetchWithRetry ==
  \E retries \in 0..MaxRetriesArg :
    /\ direct.pc # "awaiting"
    /\ net' = [net EXCEPT !["direct"] = fetchWithRetry(IdleRequest, retries)]
    /\ direct' = [IdleDirect EXCEPT !.pc = "awaiting", !.budget = retries]
    /\ UNCHANGED <<storeVars, apiKey, cachedFallbackMovies, gr, ui, mx, loaders>>

\* a caller calls getRecommendations
CallGetRecommendations ==
  \E excludeWatchedIds \in ExcludeWatched, excludeBlockedIds \in ExcludeBlocked,
     watchedMovies \in WatchedArgs :
    /\ gr.pc \in {"idle", "returned"}
    /\ ui.pc \in {"idle", "returned"}
    /\ mx.pc \in {"idle", "returned"}
    /\ Become(getRecommendations(World, apiKey, excludeWatchedIds, excludeBlockedIds,
                                 watchedMovies))
    /\ UNCHANGED <<storeVars, apiKey, direct>>

\* a component calls getRecommendationsForUI
CallGetRecommendationsForUI ==
  \E limit \in Limits, now \in Times :
    /\ ui.pc \in {"idle", "returned"}
    /\ gr.pc \in {"idle", "returned"}
    /\ mx.pc \in {"idle", "returned"}
    /\ Become(getRecommendationsForUI(World, apiKey, loadMovieData(ls, env, now), limit))
    /\ UNCHANGED <<storeVars, apiKey, direct>>

\* a caller calls getMixedRecommendations
CallGetMixedRecommendations ==
  \E userLists \in MixedUserLists :
    /\ mx.pc \in {"idle", "returned"}
    /\ gr.pc \in {"idle", "returned"}
    /\ ui.pc \in {"idle", "returned"}
    /\ Become(getMixedRecommendations(World, apiKey, userLists))
    /\ UNCHANGED <<storeVars, apiKey, direct>>

\* caller c calls getRecommendations(excludeWatchedIds) with no credential
\* configured: the fast path, up to the await of the asset when
\* loadFallbackMovies finds nothing cached
OverlappingCall(c) ==
  \E excludeWatchedIds \in ExcludeWatched :
    LET excludeIds == ExcludeIds(excludeWatchedIds, <<>>)
    IN /\ ~apiKey
       /\ loaders.act[c].pc \in {"idle", "returned"}
       /\ loaders' =
            IF cachedFallbackMovies # Null
            THEN [loaders EXCEPT
                    !.act[c] = [pc |-> "returned", excludeIds |-> excludeIds,
                                result |-> Arr(FilterExcludeIds(cachedFallbackMovies.v,
                                                                excludeIds))]]
            ELSE [loaders EXCEPT
                    !.act[c] = [pc |-> "asset", excludeIds |-> excludeIds,
                                result |-> Undefined],
                    !.fetched = @ + 1]
       /\ UNCHANGED <<storeVars, apiKey, net, cachedFallbackMovies, gr, ui, mx, direct>>

\* the fetch of the asset that caller c awaits settles: loadFallbackMovies
\* caches what it got and the call returns it filtered
AssetSettles(c) ==
  /\ loaders.act[c].pc = "asset"
  /\ \E status \in Statuses :
       \E body \in IF StatusOk(status) THEN AssetBodies ELSE {Null} :
         LET r == plainFetch_response(plainFetch(IdleRequest), status, body,
                                      FailureMessage("asset"))
             loaded == loadFallbackMovies_settled(cachedFallbackMovies, r.settle, r.value)
         IN /\ cachedFallbackMovies' = loaded.cache
            /\ loaders' =
                 [loaders EXCEPT
                    !.act[c].pc = "returned",
                    !.act[c].result =
                       Arr(FilterExcludeIds(loaded.value.v, loaders.act[c].excludeIds))]
  /\ UNCHANGED <<storeVars, apiKey, net, gr, ui, mx, direct>>

(***************************************************************************)
(* Specifications.                                                         *)
(***************************************************************************)
\* the persisted list store
Init ==
  /\ env \in {"browser", "nostorage", "server"}
  /\ StoreIdle
  /\ apiKey = FALSE
  /\ NetIdle

Next == StoreNext /\ UNCHANGED netVars

Spec == Init /\ [][Next]_vars

\* the list store with every public operation, files of any content
\* imported
OpenNext ==
  \/ AddToMyList /\ UNCHANGED netVars
  \/ AddToWatchedList /\ UNCHANGED netVars
  \/ RemoveFromList /\ UNCHANGED netVars
  \/ MoveToMyList /\ UNCHANGED netVars
  \/ BlockMovie /\ UNCHANGED netVars
  \/ ReorderMyList /\ UNCHANGED netVars
  \/ ClearAllData /\ UNCHANGED netVars
  \/ ImportSnapshot /\ UNCHANGED netVars
  \/ LoadMovieData /\ UNCHANGED netVars
  \/ GetUserStats /\ UNCHANGED netVars

OpenInit ==
  /\ env = "browser"
  /\ StoreIdle
  /\ apiKey = FALSE
  /\ NetIdle

OpenSpec == OpenInit /\ [][OpenNext]_vars

\* the page is opened on whatever the storage holds, and the store is read
LoadInit ==
  /\ env \in {"browser", "nostorage", "server"}
  /\ ls \in {<<>>} \cup {<<text>> : text \in StoredTexts}
  /\ ret = Undefined
  /\ op = Call("init", Undefined, TRUE)
  /\ exported = <<>>
  /\ apiKey = FALSE
  /\ NetIdle

LoadNext == LoadMovieData /\ UNCHANGED netVars

LoadSpec == LoadInit /\ [][LoadNext]_vars

\* the remote fetch primitive, called directly
FetchInit ==
  /\ env = "server"
  /\ StoreIdle
  /\ apiKey = TRUE
  /\ NetIdle

FetchNext ==
  \/ CallFetchWithRetry
  \/ Responds("direct")
  \/ NetworkError("direct")
  \/ TimeoutFires("direct")
  \/ RetryDelayPasses("direct")

FetchSpec == FetchInit /\ [][FetchNext]_vars

\* getRecommendations called from several places at once
OverlapInit ==
  /\ env = "server"
  /\ StoreIdle
  /\ apiKey = FALSE
  /\ NetIdle

OverlapNext ==
  \/ \E c \in Callers : OverlappingCall(c)
  \/ \E c \in Callers : AssetSettles(c)

OverlapSpec == OverlapInit /\ [][OverlapNext]_vars

\* the fallback-tiered movie source
SourceInit ==
  /\ env = "server"
  /\ StoreIdle
  /\ apiKey \in BOOLEAN
  /\ NetIdle

SourceNext ==
  \/ CallGetRecommendations
  \/ \E k \in Endpoints : Responds(k)
  \/ \E k \in Endpoints : NetworkError(k)
  \/ \E k \in Endpoints : TimeoutFires(k)
  \/ \E k \in Endpoints : RetryDelayPasses(k)

SourceSpec == SourceInit /\ [][SourceNext]_vars

\* the movie source under the scheduling the runtime guarantees: an armed
\* timer fires, and the application's own server answers the request for
\* the bundled asset.  Nothing makes the provider answer.
SourceFairSpec ==
  /\ SourceInit
  /\ [][SourceNext]_vars
  /\ WF_vars(\E k \in Endpoints : TimeoutFires(k))
  /\ WF_vars(\E k \in Endpoints : RetryDelayPasses(k))
  /\ WF_vars(Responds("asset") \/ NetworkError("asset"))

(***************************************************************************)
(* Properties of the persisted list store.                                 *)
(***************************************************************************)
\* what load() returns now
Loaded == loadMovieData(ls, env, 1)
LoadedAfter == loadMovieData(ls', env', 1)

ListOf(storage, k) == Get(Get(storage, "lists"), k).v
IdsOf(list) == {Get(list[i], "id") : i \in DOMAIN list}

\* C1: after any sequence of addToMyList / addToWatchedList / removeFromList
\* / moveToMyList calls from the empty store, no movie id is in both myList
\* and watchedList of the persisted store.
C1_NoIdInBothLists ==
  IdsOf(ListOf(Loaded, "myList")) \cap IdsOf(ListOf(Loaded, "watchedList")) = {}

\* C1 witness: a move has put an id back into myList while another id is watched
C1_Witness ==
  /\ op.name = "moveToMyList"
  /\ op.arg \in IdsOf(ListOf(Loaded, "myList"))
  /\ ListOf(Loaded, "watchedList") # <<>>

\* C2 as stated: exportData and then importData of the exported text returns
\* true and leaves a record whose load() equals the load() before the export.
C2_RoundTripReturnsTrue ==
  [][op'.name = "importData" =>
       /\ ret' = Bool(TRUE)
       /\ LoadedAfter = Loaded]_vars

\* C2 amended: importData of the text just exported returns true exactly when
\* its write to storage succeeds (a browser whose setItem does not raise), and
\* in either case the load() afterwards equals the load() before the export.
C2_RoundTrip ==
  [][op'.name = "importData" =>
       /\ ret' = Bool(env = "browser" /\ op'.writeOk)
       /\ LoadedAfter = Loaded]_vars

\* C2 witness: a store with an entry in each list has been restored from its export
C2_Witness ==
  /\ op.name = "importData"
  /\ ret = Bool(TRUE)
  /\ ListOf(Loaded, "myList") # <<>>
  /\ ListOf(Loaded, "watchedList") # <<>>
  /\ ListOf(Loaded, "blockedMovies") # <<>>

\* the recommendation service beside the list store it filters by
UIEndpoints == {"popular", "trending"}

UIInit ==
  /\ env = "browser"
  /\ StoreIdle
  /\ apiKey \in BOOLEAN
  /\ NetIdle

UINext ==
  \/ (AddToWatchedList \/ BlockMovie) /\ UNCHANGED netVars
  \/ CallGetRecommendationsForUI
  \/ \E k \in UIEndpoints : Responds(k)
  \/ \E k \in UIEndpoints : NetworkError(k)
  \/ \E k \in UIEndpoints : TimeoutFires(k)
  \/ \E k \in UIEndpoints : RetryDelayPasses(k)

UISpec == UIInit /\ [][UINext]_vars

\* the three-source mix
\* the exclusion filter applied to lists of provider records
MaxFilterLen == 3

\* what a list handed to filterExcludedMovies may hold: provider records
\* (numeric id), a record with id 0, a record without id, a null entry
FilterEntries ==
  {Obj([id |-> Num(KnownIds[1])]), Obj([id |-> Num(KnownIds[2])]),
   Obj([id |-> Num(KnownIds[3])]), Obj([id |-> Num(0)]), Obj([title |-> Str(<<"A">>)]), Null}

RECURSIVE ListsUpTo(_, _)
ListsUpTo(S, n) ==
  IF n = 0 THEN {<<>>}
  ELSE LET shorter == ListsUpTo(S, n - 1)
       IN shorter \cup {Append(l, x) : l \in shorter, x \in S}

FilterMovies == {Arr(l) : l \in ListsUpTo(FilterEntries, MaxFilterLen)} \cup {Undefined}

\* the {watchedList, blockedMovies} handed over: ids are strings, entries
\* may be null, ids empty, a list missing or no array; or no userLists
FilterUserLists ==
  {Undefined,
   Obj([watchedList |-> Arr(<<>>), blockedMovies |-> Arr(<<>>)]),
   Obj([watchedList |-> Arr(<<Obj([id |-> toString(Num(KnownIds[1]))])>>),
        blockedMovies |-> Arr(<<toString(Num(KnownIds[3]))>>)]),
   Obj([watchedList |-> Arr(<<Null, Obj([id |-> Str(<<>>)]),
                              Obj([id |-> toString(Num(KnownIds[3]))])>>),
        blockedMovies |-> Arr(<<Str(<<>>)>>)]),
   Obj([blockedMovies |-> Arr(<<toString(Num(KnownIds[1])), toString(Num(0))>>)]),
   Obj([watchedList |-> Malformed, blockedMovies |-> Malformed])}

FilterInit ==
  /\ env = "server"
  /\ ls = <<>>
  /\ ret = Undefined
  /\ \E movies \in FilterMovies, userLists \in FilterUserLists :
       op = Call("input", Obj([movies |-> movies, userLists |-> userLists]), TRUE)
  /\ exported = <<>>
  /\ apiKey = FALSE
  /\ NetIdle

\* filterExcludedMovies(movies, userLists) is applied
FilterExcludedMovies ==
  /\ op.name = "input"
  /\ ret' = Arr(filterExcludedMovies(Get(op.arg, "movies"), Get(op.arg, "userLists")))
  /\ op' = Call("filterExcludedMovies", op.arg, TRUE)
  /\ UNCHANGED <<env, ls, exported>>

FilterNext == FilterExcludedMovies /\ UNCHANGED netVars

FilterSpec == FilterInit /\ [][FilterNext]_vars

MixedInit ==
  /\ env = "server"
  /\ StoreIdle
  /\ apiKey \in BOOLEAN
  /\ NetIdle

MixedNext ==
  \/ CallGetMixedRecommendations
  \/ \E k \in MixedEndpoints : Responds(k)
  \/ \E k \in MixedEndpoints : NetworkError(k)
  \/ \E k \in MixedEndpoints : TimeoutFires(k)
  \/ \E k \in MixedEndpoints : RetryDelayPasses(k)

MixedSpec == MixedInit /\ [][MixedNext]_vars

(***************************************************************************)
(* Properties of the movie source.                                         *)
(***************************************************************************)
Returned == gr.pc = "returned"
Range(seq) == {seq[i] : i \in DOMAIN seq}
ProviderEndpoints == {"popular", "trending", "similar"}

\* the ids the caller asked to leave out, as it passed them
ExcludedStrings == Range(gr.excludeWatchedIds) \cup Range(gr.excludeBlockedIds)

\* the entries of list whose id, written as a string, is not excluded
WithoutExcluded(list) ==
  SelectSeq(list, LAMBDA movie : toString(Get(movie, "id")) \notin ExcludedStrings)

\* the bundled dataset with its ids as numbers, and the hardcoded list
BundledMovies == <<TMDBMovie(550), TMDBMovie(13), TMDBMovie(238)>>
HardcodedMovies == <<TMDBMovie(550), TMDBMovie(278)>>

\* C3: with a credential configured and every provider call failing,
\* getRecommendations([], [], []) returns a non-empty list, which is the
\* bundled dataset or, when that cannot be loaded, the hardcoded list.
C3_FallbackWhenProviderFails ==
  (/\ Returned
   /\ apiKey
   /\ gr.okCalls = 0
   /\ ExcludedStrings = {}
   /\ gr.watchedMovies = <<>>)
  => /\ IsArr(gr.result)
     /\ gr.result.v # <<>>
     /\ gr.result.v \in {BundledMovies, HardcodedMovies}

\* C3 witness: popular and trending were both tried and failed, and the
\* hardcoded list came back
C3_Witness ==
  /\ Returned
  /\ apiKey
  /\ gr.okCalls = 0
  /\ gr.issued["popular"] = 1
  /\ gr.issued["trending"] = 1
  /\ ExcludedStrings = {}
  /\ gr.watchedMovies = <<>>
  /\ gr.result = Arr(HardcodedMovies)

C5_NeverRejects == Returned => IsArr(gr.result)

\* C5 witness: a call returned although no provider call resolved and the
\* asset could not be loaded
C5_Witness ==
  /\ Returned
  /\ apiKey
  /\ gr.okCalls = 0
  /\ gr.issued["popular"] = 1
  /\ gr.issued["trending"] = 1
  /\ gr.issued["asset"] = 1
  /\ cachedFallbackMovies = Arr(HardcodedMovies)
  /\ IsArr(gr.result)

\* C6: on every return path, no returned movie has an id that is in
\* excludeWatchedIds or excludeBlockedIds.
C6_NoExcludedReturned ==
  (Returned /\ IsArr(gr.result))
  => \A i \in DOMAIN gr.result.v :
       toString(Get(gr.result.v[i], "id")) \notin ExcludedStrings

\* C6 witness: the provider delivered an excluded movie and the call
\* returned a non-empty list from the network
C6_Witness ==
  /\ Returned
  /\ gr.issued["asset"] = 0
  /\ gr.result.v # <<>>
  /\ \E i \in DOMAIN gr.recs :
       Truthy(gr.recs[i]) /\ toString(Get(gr.recs[i], "id")) \in ExcludedStrings

(***************************************************************************)
(* Properties of the remote fetch primitive.                               *)
(***************************************************************************)
AbortFailure == <<"a", "b", "o", "r", "t">>

C9_BoundedRetries ==
  /\ net["direct"].attempts <= direct.budget + 1
  /\ direct.attempts <= direct.budget + 1
  /\ direct.budget = RETRY_CONFIG_maxRetries => net["direct"].attempts <= 3
  /\ net["direct"].inflight \in {0, 1}
  /\ net["direct"].inflight = 1 <=> net["direct"].st = "pending"
  /\ (direct.pc = "settled" /\ direct.settle = "reject" /\ direct.last # AbortFailure)
       => /\ direct.attempts = direct.budget + 1
          /\ direct.value = Str(direct.last)
  /\ (direct.pc = "settled" /\ direct.settle = "resolve")
       => StatusOk(Get(direct.value, "status").v)

\* C9 witness: a call with the default budget was rejected after its third
\* attempt got a 500
C9_Witness ==
  /\ direct.pc = "settled"
  /\ direct.settle = "reject"
  /\ direct.budget = RETRY_CONFIG_maxRetries
  /\ direct.attempts = 3
  /\ direct.value = Str(<<"H", "T", "T", "P", "5", "0", "0">>)

\* C10: getRecommendations always returns in the end, whatever the provider
\* does, a provider that never answers included.
C10_AlwaysReturns == (gr.pc \notin {"idle", "returned"}) ~> Returned

(***************************************************************************)
(* Properties of the recommendation service.                               *)
(***************************************************************************)
\* C7: no list returned by getRecommendationsForUI contains a movie whose
\* id is in the store's watchedList or blockedMovies as they were when it
\* was called, on every path, the offline list included.
C7_UINeverShowsExcluded ==
  ui.pc = "returned"
  => \A i \in DOMAIN ui.result :
       Get(ui.result[i], "id")
         \notin IdsOf(Get(ui.userLists, "watchedList").v)
                \cup Range(Get(ui.userLists, "blockedMovies").v)

(***************************************************************************)
(* Properties of getMixedRecommendations.                                  *)
(***************************************************************************)
\* C11: whatever the three sources give, overlapping ids and failed
\* sources included, getMixedRecommendations returns at most 10 entries and
\* no id occurs twice among them.
C11_MixedAtMostTenDistinct ==
  mx.pc = "returned"
  => /\ Len(mx.result) <= 10
     /\ \A i, j \in DOMAIN mx.result :
          Get(mx.result[i], "id") = Get(mx.result[j], "id") => i = j

\* C11 witness: trending and top-rated overlapped in an id and more than
\* ten distinct movies were on offer
C11_Witness ==
  /\ mx.pc = "returned"
  /\ Len(mx.result) = 10
  /\ IdsOf(mx.lists["trending"].v) \cap IdsOf(mx.lists["toprated"].v) # {}

\* C12: when the popular, trending and top-rated sources all fail,
\* getMixedRecommendations invokes getBasicRecommendations and returns what
\* it gives.
C12_DelegatesWhenAllFail ==
  (mx.pc = "returned" /\ mx.failed = MixedEndpoints) => mx.delegated

(***************************************************************************)
(* Properties of the list store with every public operation.               *)
(***************************************************************************)
\* the entries of a list of the store, none when it is no list
EntriesOf(storage, k) ==
  LET list == Get(Get(storage, "lists"), k)
  IN IF IsArr(list) THEN list.v ELSE <<>>

StructurallyValid(storage) ==
  \A k \in {"myList", "watchedList", "blockedMovies"} :
    IsArr(Get(Get(storage, "lists"), k))

\* C13: in every store reachable from the empty one by the public
\* operations (reorderMyList, importData, clearAllData and a migrating load
\* included), no id is in both myList and watchedList and no id is twice
\* in blockedMovies.
C13_ListsDisjointBlockedDistinct ==
  LET blocked == EntriesOf(Loaded, "blockedMovies")
  IN /\ (IdsOf(EntriesOf(Loaded, "myList")) \cap IdsOf(EntriesOf(Loaded, "watchedList")))
          \ {Undefined} = {}
     /\ \A i, j \in DOMAIN blocked : blocked[i] = blocked[j] => i = j

\* C14: once importData has returned true, loadMovieData gives a store with
\* its three lists, and no store operation raises.
C14_ImportLeavesValidStore ==
  /\ (op.name = "importSnapshot" /\ ret = Bool(TRUE)) => StructurallyValid(Loaded)
  /\ ret # Thrown

\* what localStorage holds was written by another version of the program
\* (or by anything else): it parses to an object whose version tag is not
\* the current one
StoredLegacy ==
  /\ env = "browser"
  /\ ls # <<>>
  /\ ls[1].valid
  /\ IsObj(ls[1].doc)
  /\ ~StrictEq(Get(ls[1].doc, "version"), STORAGE_VERSION)

LegacyList(k) == Get(Get(ls[1].doc, "lists"), k)

\* an array of movie records
RecordList(x) == IsArr(x) /\ \A i \in DOMAIN x.v : IsObj(x.v[i])

\* C15: loadMovieData never raises, and it returns the all-empty default
\* store of the current version whenever the key is absent, the storage
\* cannot be read, or the stored text is not valid JSON or is JSON that is
\* not an object.
C15_LoadFallsBackToDefault ==
  op.name = "loadMovieData" =>
    /\ ret # Thrown
    /\ (env # "browser" \/ ls = <<>> \/ ~ls[1].valid \/ ~IsObj(ls[1].doc))
         => ret = getDefaultStorage

C15_Witness ==
  /\ op.name = "loadMovieData"
  /\ env = "browser"
  /\ ls = <<JSONText(Null)>>
  /\ ret = getDefaultStorage

\* C16: loading a record of another version that keeps the want-to-watch
\* list under lists.wantToWatch, each of its list fields being absent or an
\* array of records, returns a store of the current version whose myList
\* has the same entries in the same order: same id, title, year, genre,
\* poster and rating, and the same dateAdded when the entry has one.
C16_MigratesWantToWatch ==
  LET old == LegacyList("wantToWatch")
      new == Get(Get(ret, "lists"), "myList")
  IN (/\ op.name = "loadMovieData"
      /\ StoredLegacy
      /\ RecordList(old)
      /\ \A k \in {"myList", "watchedList", "watched"} :
            LegacyList(k) = Undefined \/ RecordList(LegacyList(k)))
     => /\ Get(ret, "version") = STORAGE_VERSION
        /\ IsArr(new)
        /\ Len(new.v) = Len(old.v)
        /\ \A i \in DOMAIN old.v :
             /\ \A f \in {"id", "title", "year", "genre", "poster", "rating"} :
                  Get(new.v[i], f) = Get(old.v[i], f)
             /\ Truthy(Get(old.v[i], "dateAdded"))
                  => Get(new.v[i], "dateAdded") = Get(old.v[i], "dateAdded")

C16_Witness ==
  /\ op.name = "loadMovieData"
  /\ StoredLegacy
  /\ RecordList(LegacyList("wantToWatch"))
  /\ Len(LegacyList("wantToWatch").v) = 2
  /\ RecordList(LegacyList("myList"))
  /\ RecordList(LegacyList("watched"))
  /\ Get(Get(ret, "lists"), "myList") # LegacyList("myList")
  /\ Len(Get(Get(ret, "lists"), "myList").v) = 2

\* C20: during migration a legacy list field of malformed shape (a value
\* that is no array) is dropped for that field only: its list of the
\* returned store is empty and the well-formed want-to-watch list of the
\* same record is still migrated.
C20_MalformedFieldDroppedAlone ==
  LET old == LegacyList("wantToWatch")
      lists == Get(ret, "lists")
  IN (/\ op.name = "loadMovieData"
      /\ StoredLegacy
      /\ RecordList(old)
      /\ LegacyList("myList") = Undefined \/ RecordList(LegacyList("myList")))
     => /\ (LegacyList("watched") # Undefined /\ ~IsArr(LegacyList("watched")))
            => /\ Get(lists, "watchedList") = Arr(<<>>)
               /\ Len(Get(lists, "myList").v) = Len(old.v)
        /\ (/\ LegacyList("blocked") # Undefined /\ ~IsArr(LegacyList("blocked"))
            /\ LegacyList("watched") = Undefined \/ RecordList(LegacyList("watched")))
            => /\ Get(lists, "blockedMovies") = Arr(<<>>)
               /\ Len(Get(lists, "myList").v) = Len(old.v)

\* how many entries of the list are the value x
Occurrences(list, x) == Cardinality({i \in DOMAIN list : list[i] = x})

\* C17: blockMovie is idempotent.  A call of blockMovie leaves myList and
\* watchedList of the persisted store as they were; and a second call with
\* the same id (its write not succeeding where the first one's failed)
\* leaves the persisted store that the first call left, returns the store
\* the first call returned, with exactly one occurrence of the id in
\* blockedMovies, in the returned store and in the persisted one when the
\* write went through.
C17_BlockMovieIdempotent ==
  [][/\ op'.name = "blockMovie"
       => /\ ListOf(LoadedAfter, "myList") = ListOf(Loaded, "myList")
          /\ ListOf(LoadedAfter, "watchedList") = ListOf(Loaded, "watchedList")
     /\ (/\ op.name = "blockMovie"
         /\ op'.name = "blockMovie"
         /\ op'.arg = op.arg
         /\ op.writeOk \/ ~op'.writeOk)
       => /\ ls' = ls
          /\ ret' = ret
          /\ Occurrences(ListOf(ret', "blockedMovies"), op.arg) = 1
          /\ (env = "browser" /\ op.writeOk)
               => Occurrences(ListOf(LoadedAfter, "blockedMovies"), op.arg) = 1]_vars

\* blockMovie was called with an id the persisted store already blocked:
\* its write could not succeed and yet the id is persisted
C17_Witness ==
  /\ op.name = "blockMovie"
  /\ env = "browser"
  /\ ~op.writeOk
  /\ Occurrences(ListOf(Loaded, "blockedMovies"), op.arg) = 1
  /\ ret = Loaded

\* where the entry with that id is in the list (0: nowhere)
PositionOf(list, id) ==
  IF \E i \in DOMAIN list : Get(list[i], "id") = id
  THEN CHOOSE i \in DOMAIN list :
         /\ Get(list[i], "id") = id
         /\ \A j \in 1..(i - 1) : Get(list[j], "id") # id
  ELSE 0

\* C19 as stated: after addToWatchedList(m) returns, m is the first element
\* of watchedList, also when m.id was already in watchedList.
C19_WatchedGoesFirst ==
  (op.name = "addToWatchedList" /\ ret # Thrown)
    => PositionOf(ListOf(ret, "watchedList"), op.arg) = 1

\* C19: after addToWatchedList(m) returns, watchedList holds exactly one
\* entry with m.id, the record just made from m; it is the first element
\* when m.id was not in watchedList before, and otherwise it stands where
\* the entry it replaces stood, the rest of the list being as it was.
C19_WatchedFirstOrInPlace ==
  [][(op'.name = "addToWatchedList" /\ ret' # Thrown)
       => LET before == ListOf(Loaded, "watchedList")
              after == ListOf(ret', "watchedList")
              was == PositionOf(before, op'.arg)
              now == PositionOf(after, op'.arg)
          IN /\ Cardinality({i \in DOMAIN after : Get(after[i], "id") = op'.arg}) = 1
             /\ Get(after[now], "dateWatched") # Undefined
             /\ IF was = 0
                THEN now = 1 /\ Tail(after) = before
                ELSE /\ now = was
                     /\ Len(after) = Len(before)
                     /\ \A i \in DOMAIN before : i # was => after[i] = before[i]]_vars

\* a movie was watched again: its entry is not the first of the list
C19_Witness ==
  /\ op.name = "addToWatchedList"
  /\ ret # Thrown
  /\ PositionOf(ListOf(ret, "watchedList"), op.arg) = 2
  /\ Loaded = ret

\* the ids the lists name: of the watched entries and the blocked ids
NamedIds(userLists) ==
  LET watched == Get(userLists, "watchedList")
      blocked == Get(userLists, "blockedMovies")
  IN (IF IsArr(watched) THEN {Get(watched.v[i], "id") : i \in DOMAIN watched.v} ELSE {})
     \cup (IF IsArr(blocked) THEN {blocked.v[i] : i \in DOMAIN blocked.v} ELSE {})

\* the record's id is in watchedList or blockedMovies
IsExcluded(movie, userLists) ==
  /\ IsObj(movie)
  /\ Get(movie, "id") # Undefined
  /\ toString(Get(movie, "id")) \in NamedIds(userLists)

\* C18 as stated: filterExcludedMovies returns exactly the records whose id
\* is in neither watchedList nor blockedMovies, in their original order.
C18_ExactlyTheNonExcluded ==
  (op.name = "filterExcludedMovies" /\ IsArr(Get(op.arg, "movies")))
    => ret.v = SelectSeq(Get(op.arg, "movies").v,
                         LAMBDA movie : ~IsExcluded(movie, Get(op.arg, "userLists")))

\* C18: given an array of records and a {watchedList, blockedMovies},
\* filterExcludedMovies returns, in their original order, exactly the
\* records that are not null, have a truthy id (not 0, not missing) and
\* whose id, written as a string, is neither the id of a watchedList entry
\* nor in blockedMovies; without userLists it returns the array as it is,
\* and for anything but an array it returns the empty list.
C18_NonExcludedWithAnId ==
  op.name = "filterExcludedMovies" =>
    LET movies == Get(op.arg, "movies")
        userLists == Get(op.arg, "userLists")
    IN IF ~IsArr(movies) THEN ret.v = <<>>
       ELSE IF userLists = Undefined THEN ret.v = movies.v
       ELSE ret.v = SelectSeq(movies.v,
                              LAMBDA movie : /\ IsObj(movie)
                                             /\ Truthy(Get(movie, "id"))
                                             /\ ~IsExcluded(movie, userLists))

\* a list of three records loses one to watchedList, one to blockedMovies
\* and keeps the third
C18_Witness ==
  /\ op.name = "filterExcludedMovies"
  /\ IsArr(Get(op.arg, "movies"))
  /\ Len(Get(op.arg, "movies").v) = 3
  /\ Len(ret.v) = 1
  /\ Get(ret.v[1], "id") = Num(KnownIds[2])
  /\ \E i, j \in 1..3 :
       /\ Get(Get(op.arg, "movies").v[i], "id") = Num(KnownIds[1])
       /\ Get(Get(op.arg, "movies").v[j], "id") = Num(KnownIds[3])
  /\ Get(Get(op.arg, "userLists"), "watchedList")
       = Arr(<<Obj([id |-> toString(Num(KnownIds[1]))])>>)
  /\ Get(Get(op.arg, "userLists"), "blockedMovies") = Arr(<<toString(Num(KnownIds[3]))>>)

(***************************************************************************)
(* Properties of the tiers of getRecommendations.                          *)
(***************************************************************************)
\* what the calls of one tier delivered to the accumulator, in call order:
\* nothing for a failed call, the first SimilarLimit results of a lookup
RECURSIVE TierItems(_, _)
TierItems(log, tier) ==
  IF log = <<>> THEN <<>>
  ELSE LET e == Head(log)
           items == IF e.tier # tier \/ e.results = Thrown THEN <<>>
                    ELSE IF tier = "similar" THEN Slice(e.results.v, SimilarLimit)
                    ELSE e.results.v
       IN items \o TierItems(Tail(log), tier)

\* the tier results in the order popular, trending, similar
TierResults ==
  TierItems(gr.log, "popular") \o TierItems(gr.log, "trending")
    \o TierItems(gr.log, "similar")

\* the records of list that are not excluded, each id at its first
\* occurrence only, in their order, from index i on
RECURSIVE FirstOccurrences(_, _)
FirstOccurrences(list, i) ==
  IF i > Len(list) THEN <<>>
  ELSE LET keep == /\ IsObj(list[i])
                   /\ toString(Get(list[i], "id")) \notin ExcludedStrings
                   /\ \A j \in 1..(i - 1) :
                        IsObj(list[j]) => Get(list[j], "id") # Get(list[i], "id")
       IN (IF keep THEN <<list[i]>> ELSE <<>>) \o FirstOccurrences(list, i + 1)

TwoLookups ==
  /\ Len(gr.watchedMovies) >= 2
  /\ IsObj(gr.watchedMovies[1])
  /\ IsObj(gr.watchedMovies[2])

\* the list holds a record with that id
HasId(list, id) == \E i \in DOMAIN list : IsObj(list[i]) /\ Get(list[i], "id") = id

C27_TrendingIffFewerThan15 ==
  (apiKey /\ gr.pc # "idle") =>
    IF gr.log = <<>> THEN gr.issued["trending"] = 0
    ELSE /\ gr.log[1].tier = "popular"
         /\ gr.issued["trending"] = 1 <=> Len(TierItems(gr.log, "popular")) < 15
         /\ gr.issued["trending"] = 0 <=> Len(TierItems(gr.log, "popular")) >= 15

\* Tier A delivered exactly 15 items and the call returned without a
\* trending request
C27_Witness ==
  /\ Returned
  /\ apiKey
  /\ Len(TierItems(gr.log, "popular")) = 15
  /\ gr.issued["trending"] = 0
  /\ net["trending"].st = "idle"

\* recommendations.length after the call of log entry j
SizeAfter(j) == IF j < Len(gr.log) THEN gr.log[j + 1].size ELSE Len(gr.recs)

\* the entries of the log that are similarity lookups
Lookups == {j \in DOMAIN gr.log : gr.log[j].tier = "similar"}

\* C28: similarity lookups are issued only when the accumulator is not
\* empty after Tiers A and B and the caller gave a recently-watched movie;
\* at most 2 are issued, for the first 2 recently-watched movies in order;
\* a lookup appends at most 5 items; and no further lookup is issued once
\* the accumulator has reached 25 items.
C28_SimilarLookupsBounded ==
  (apiKey /\ gr.pc # "idle") =>
    /\ gr.issued["similar"] > 0 =>
         /\ Len(TierItems(gr.log, "popular")) + Len(TierItems(gr.log, "trending")) > 0
         /\ gr.watchedMovies # <<>>
    /\ gr.issued["similar"] <= 2
    /\ \A j \in Lookups :
         /\ gr.log[j].idx \in 1..2
         /\ gr.log[j].idx <= Len(gr.watchedMovies)
         /\ \A i \in Lookups : i < j => gr.log[i].idx < gr.log[j].idx
         /\ SizeAfter(j) - gr.log[j].size <= 5
         /\ (\E i \in Lookups : i < j) => gr.log[j].size < 25
    /\ (gr.pc = "similar" /\ Lookups # {}) => Len(gr.recs) < 25

\* C29: when de-duplication and exclusion leave no item on the network
\* path (every tier failed, or every item fetched is excluded),
\* getRecommendations returns the bundled dataset, or the hardcoded list
\* when the dataset could not be loaded, less the excluded ids.
C29_EmptyNetworkResultFallsBack ==
  (Returned /\ apiKey /\ FirstOccurrences(TierResults, 1) = <<>>)
    => /\ cachedFallbackMovies \in {Arr(BundledMovies), Arr(HardcodedMovies)}
       /\ gr.result = Arr(WithoutExcluded(cachedFallbackMovies.v))

\* the tiers delivered movies, all of them excluded, and the bundled
\* dataset was loaded and returned
C29_Witness ==
  /\ Returned
  /\ apiKey
  /\ \E i \in DOMAIN TierResults : IsObj(TierResults[i])
  /\ FirstOccurrences(TierResults, 1) = <<>>
  /\ gr.issued["asset"] = 1
  /\ cachedFallbackMovies = Arr(BundledMovies)
  /\ gr.result.v # <<>>

(***************************************************************************)
(* Frame properties of the store mutators.                                 *)
(***************************************************************************)
\* the entries of the list whose id is not id, in their order
Others(list, id) == SelectSeq(list, LAMBDA m : Get(m, "id") # id)

\* C23: addToMyList(m) inserts only if m.id is in neither myList nor
\* watchedList.  When it is in one of them the store returned is the store
\* loaded and nothing is written; otherwise m is appended as the last
\* element of myList, watchedList and blockedMovies are as they were, and
\* a write that goes through persists the store returned.
C23_AddToMyListOnlyIfNew ==
  [][(op'.name = "addToMyList" /\ ret' # Thrown)
       => LET id == op'.arg
              my == ListOf(Loaded, "myList")
              my2 == ListOf(ret', "myList")
          IN IF id \in IdsOf(my) \cup IdsOf(ListOf(Loaded, "watchedList"))
             THEN ret' = Loaded /\ ls' = ls
             ELSE /\ Len(my2) = Len(my) + 1
                  /\ SubSeq(my2, 1, Len(my)) = my
                  /\ Get(my2[Len(my2)], "id") = id
                  /\ ListOf(ret', "watchedList") = ListOf(Loaded, "watchedList")
                  /\ ListOf(ret', "blockedMovies") = ListOf(Loaded, "blockedMovies")
                  /\ (env = "browser" /\ op'.writeOk)
                       => ToJSON(LoadedAfter) = ToJSON(ret')]_vars

\* addToMyList was called with a movie already watched, and a second movie
\* is last in myList
C23_Witness ==
  /\ op.name = "addToMyList"
  /\ op.arg \in IdsOf(ListOf(Loaded, "watchedList"))
  /\ op.arg \notin IdsOf(ListOf(Loaded, "myList"))
  /\ Len(ListOf(Loaded, "myList")) >= 1
  /\ ret = Loaded

\* C24: for every store reached from the empty store through the add,
\* remove, move and block mutators, after addToWatchedList(m) returns m.id
\* occurs exactly once in watchedList and not in myList, wherever it was
\* before; blockedMovies and all entries with other ids are as they were.
C24_WatchedOnceNotInMyList ==
  [][(op'.name = "addToWatchedList" /\ ret' # Thrown)
       => LET id == op'.arg
              wl2 == ListOf(ret', "watchedList")
          IN /\ Cardinality({i \in DOMAIN wl2 : Get(wl2[i], "id") = id}) = 1
             /\ id \notin IdsOf(ListOf(ret', "myList"))
             /\ ListOf(ret', "blockedMovies") = ListOf(Loaded, "blockedMovies")
             /\ ListOf(ret', "myList") = Others(ListOf(Loaded, "myList"), id)
             /\ Others(wl2, id) = Others(ListOf(Loaded, "watchedList"), id)
             /\ (env = "browser" /\ op'.writeOk)
                  => ToJSON(LoadedAfter) = ToJSON(ret')]_vars

\* addToWatchedList was called with a movie of myList, which holds another
\* movie as well: the write failed, so the persisted store still shows it
C24_Witness ==
  /\ op.name = "addToWatchedList"
  /\ env = "browser"
  /\ ~op.writeOk
  /\ op.arg \in IdsOf(ListOf(Loaded, "myList"))
  /\ Len(ListOf(Loaded, "myList")) = 2
  /\ ret # Thrown
  /\ Len(ListOf(ret, "myList")) = 1
  /\ op.arg \in IdsOf(ListOf(ret, "watchedList"))

\* C30: after a mutator returns, the store it returned is the store an
\* immediately following load returns, also when the write inside the
\* mutator failed.
C30_ReturnedIsPersisted ==
  (/\ op.name \in {"addToMyList", "addToWatchedList", "removeFromList",
                   "moveToMyList", "reorderMyList", "blockMovie"}
   /\ ret # Thrown)
  => ToJSON(ret) = ToJSON(Loaded)

(***************************************************************************)
(* Properties of the cache of the bundled dataset.                         *)
(***************************************************************************)
\* C21: across any number of getRecommendations calls, overlapping ones
\* included, the bundled asset is fetched at most once.
C21_AssetFetchedAtMostOnce == loaders.fetched <= 1

\* C22: once a failed load has cached the hardcoded list, the cache holds
\* the hardcoded list from then on, no call fetches the asset again, and
\* every call that returns answers from the hardcoded list.
C22_HardcodedStaysCached ==
  [][cachedFallbackMovies = hardcodedFallback
       => /\ cachedFallbackMovies' = hardcodedFallback
          /\ loaders'.fetched = loaders.fetched
          /\ \A c \in Callers :
               (loaders.act[c].pc # "returned" /\ loaders'.act[c].pc = "returned")
                 => loaders'.act[c].result
                      = Arr(FilterExcludeIds(hardcodedFallback.v,
                                             loaders'.act[c].excludeIds))]_vars

====
